---------------------------- MODULE Spec2Model ----------------------------
(***************************************************************************)
(* Model of cryptocontainer_lab: the container scanner                     *)
(* (detector/scanner.py, detector/signatures.py, detector/heuristics.py),  *)
(* the candidate record of core/models.py and the command line entry of    *)
(* cli/main.py.                                                            *)
(*                                                                         *)
(* Bytes are the integers 0..255 and a bytes object is a sequence of them. *)
(* Confidence scores are kept in hundredths (0.9 is 90) and entropy in     *)
(* fixed point, so that all arithmetic is on integers.                     *)
(***************************************************************************)
EXTENDS Integers, Sequences, FiniteSets, TLC

VARIABLES
    file,        \* argument of a direct scan_file_for_containers call
    block_size,  \* the block_size argument of the running call
    ret,         \* outcome of the direct scan_file_for_containers call
    root,        \* the root argument of scan_path_for_containers
    tree,        \* the directories below the root: node -> listing
    files,       \* the regular files below the root: node -> suffix, content, readable
    sink,        \* which of on_progress, on_result, on_error the caller installed
    pc,          \* where the running entry point is
    exc,         \* the exception an entry point has raised, "none" otherwise
    stack,       \* os.walk: the directories still to be listed, next first
    pending,     \* _iter_files: the files of the listed directory not yet yielded
    visited,     \* _iter_files: the (st_dev, st_ino) keys seen
    walked,      \* the directories os.walk has listed, in order
    yielded,     \* the paths _iter_files has yielded, in order
    opened,      \* the paths scan_file_for_containers has tried to open, in order
    events,      \* the calls the sink has received, in order
    results,     \* the list scan_path_for_containers builds and returns
    command,     \* the entry point that runs
    snapshot,    \* case.json in the case directory
    mem,         \* the Case object each client holds, NoCase when it holds none
    store,       \* whether the case directory can be written
    wr,          \* the write of case.json each client has under way
    lret,        \* the last ledger call of each client and how it ended
    uuids,       \* how many identities uuid4 has drawn
    calls,       \* how many ledger calls have been made
    io,          \* the paths bound by the scan loop and the handles opened and closed, in order
    cancel,      \* whether the consumer of a scan has signalled cancellation
    ul           \* a call of an unlock or crack capability and how it ended

vars == <<file, block_size, ret, root, tree, files, sink, pc, exc, stack, pending,
          visited, walked, yielded, opened, events, results, command, snapshot,
          mem, store, wr, lret, uuids, calls, io, cancel, ul>>

ledgerVars == <<mem, store, wr, lret, uuids, calls>>

fsVars == <<root, tree, files, sink, command, snapshot, ul>>

scanVars == <<pc, exc, stack, pending, visited, walked, yielded, opened, events, results>>

----------------------------------------------------------------------------
(* Bounds of the model. *)

\* longest small file whose content is enumerated byte by byte
MaxFileLen == 20

----------------------------------------------------------------------------
(* detector/signatures.py *)

\* b"-FVE-FS-"
BITLOCKER_HEADER == <<45, 70, 86, 69, 45, 70, 83, 45>>

\* b"LUKS\xba\xbe"
LUKS_MAGIC == <<76, 85, 75, 83, 186, 190>>

VERACRYPT_EXTENSIONS == {".hc", ".tc"}

DEFAULT_SCAN_OFFSETS == <<0, 4096, 65536>>

HEADER_WINDOW == 8192

\* block_size: int = 1024 * 1024
DEFAULT_BLOCK_SIZE == 1048576

----------------------------------------------------------------------------
(* Python bytes operations, as the interpreter computes them. *)

Min(S) == CHOOSE x \in S : \A y \in S : x <= y

Max(S) == CHOOSE x \in S : \A y \in S : x >= y

\* b[a:b] for 0 <= a, 0 <= b (indices are 0-based, the end is clamped)
Slice(s, a, b) == SubSeq(s, a + 1, IF b < Len(s) THEN b ELSE Len(s))

\* b[-k:] for k > 0: the last k bytes, or all of b when it is shorter
LastBytes(s, k) == IF Len(s) <= k THEN s ELSE SubSeq(s, Len(s) - k + 1, Len(s))

\* handle.seek(pos); handle.read(n): a read at or past the end returns b""
ReadAt(content, pos, n) == Slice(content, pos, pos + n)

\* needle occurs in s at the 0-based index i
MatchAt(s, needle, i) == \A j \in 1..Len(needle) : s[i + j] = needle[j]

\* every 0-based index at which needle occurs in s
Positions(s, needle) == {i \in 0..(Len(s) - Len(needle)) : MatchAt(s, needle, i)}

\* needle in s
Contains(s, needle) == Positions(s, needle) # {}

\* s.index(needle): the first occurrence
Index(s, needle) == Min(Positions(s, needle))

\* str.lower() on the suffixes the model uses
Lower(suffix) ==
    CASE suffix = ".HC" -> ".hc"
      [] suffix = ".TC" -> ".tc"
      [] suffix = ".BIN" -> ".bin"
      [] OTHER -> suffix

----------------------------------------------------------------------------
(* core/models.py: the ContainerCandidate dataclass and its generated      *)
(* __init__, which accepts exactly the declared fields as keywords.        *)

ContainerCandidateFields ==
    {"candidate_id", "evidence_id", "offset", "container_type", "confidence", "notes"}

\* the fields declared without a default
ContainerCandidateRequired ==
    {"candidate_id", "evidence_id", "offset", "container_type"}

NoCandidate ==
    [candidate_id |-> "", evidence_id |-> "", offset |-> 0,
     container_type |-> "unknown", confidence |-> 0, notes |-> ""]

\* ContainerCandidate(**kw): TypeError on an undeclared keyword or a missing
\* required one, the record otherwise
ContainerCandidate(kw) ==
    IF DOMAIN kw \subseteq ContainerCandidateFields
       /\ ContainerCandidateRequired \subseteq DOMAIN kw
    THEN [exc |-> "none",
          obj |-> [candidate_id |-> kw.candidate_id,
                   evidence_id |-> kw.evidence_id,
                   offset |-> kw.offset,
                   container_type |-> kw.container_type,
                   confidence |-> IF "confidence" \in DOMAIN kw THEN kw.confidence ELSE 0,
                   notes |-> IF "notes" \in DOMAIN kw THEN kw.notes ELSE ""]]
    ELSE [exc |-> "TypeError", obj |-> NoCandidate]

----------------------------------------------------------------------------
(* detector/heuristics.py: Shannon entropy, in fixed point.  The float     *)
(* result is represented by its value times EntropyOne, computed with      *)
(* integer arithmetic; the error is below 0.01 bit.                        *)

\* one bit of entropy in the fixed-point representation
EntropyOne == 2 ^ 10

\* scale of the mantissa while a logarithm is extracted
MantissaOne == 2 ^ 14

RECURSIVE Log2Bits(_, _)
\* the first k fractional bits of log2(y / MantissaOne), MantissaOne <= y < 2 * MantissaOne
Log2Bits(y, k) ==
    IF k = 0 THEN 0
    ELSE LET sq == (y * y) \div MantissaOne
         IN  IF sq >= 2 * MantissaOne
             THEN 2 ^ (k - 1) + Log2Bits(sq \div 2, k - 1)
             ELSE Log2Bits(sq, k - 1)

\* math.log2(x) * EntropyOne for an integer 1 <= x <= 2^16
Log2(x) ==
    LET e == Max({k \in 0..16 : 2 ^ k <= x})
    IN  e * EntropyOne + Log2Bits((x * MantissaOne) \div (2 ^ e), 10)

\* estimate_entropy(data) * EntropyOne:
\* -sum p*log2(p) = log2(total) - sum(count*log2(count)) / total
estimate_entropy(data) ==
    IF data = << >> THEN 0
    ELSE LET total == Len(data)
             bytes == {data[i] : i \in 1..total}
             count(b) == Cardinality({i \in 1..total : data[i] = b})
             RECURSIVE Sum(_)
             Sum(S) == IF S = {} THEN 0
                       ELSE LET b == CHOOSE x \in S : TRUE
                            IN  count(b) * Log2(count(b)) + Sum(S \ {b})
         IN  Log2(total) - (Sum(bytes) \div total)

----------------------------------------------------------------------------
(* detector/scanner.py *)

\* the generator _scan_block, as the sequence of what its successive yields
\* construct; a constructor that raises ends the generator
_scan_block(block, offset, source_path) ==
    LET bitlocker ==
            IF Contains(block, BITLOCKER_HEADER)
            THEN << ContainerCandidate(
                      [candidate_id |-> "uuid4",
                       source_path |-> source_path,
                       offset |-> offset + Index(block, BITLOCKER_HEADER),
                       container_type |-> "bitlocker",
                       confidence |-> 90,
                       notes |-> "BitLocker header signature"]) >>
            ELSE << >>
        luks ==
            IF Contains(block, LUKS_MAGIC)
            THEN << ContainerCandidate(
                      [candidate_id |-> "uuid4",
                       source_path |-> source_path,
                       offset |-> offset + Index(block, LUKS_MAGIC),
                       container_type |-> "luks",
                       confidence |-> 90,
                       notes |-> "LUKS header signature"]) >>
            ELSE << >>
    IN  IF bitlocker # << >> /\ bitlocker[1].exc # "none"
        THEN bitlocker
        ELSE bitlocker \o luks

\* Optional[float] as a set: {} is None, {c} is the score c (in hundredths)
_veracrypt_confidence(suffix, header_block) ==
    IF Lower(suffix) \notin VERACRYPT_EXTENSIONS THEN {}
    ELSE IF header_block = << >> THEN {35}
    ELSE IF Len(header_block) < 1024 THEN {40}
    ELSE LET entropy == estimate_entropy(Slice(header_block, 0, 4096))
         IN  IF 10 * entropy >= 72 * EntropyOne THEN {65}
             ELSE IF 10 * entropy >= 68 * EntropyOne THEN {50}
             ELSE {40}

\* the locals of scan_file_for_containers that outlive a loop iteration
ScanLocals == [exc |-> "none", discovered |-> << >>, seen |-> {}]

RECURSIVE Accept(_, _)
\* the body of "for candidate in _scan_block(...)": skip a key already seen,
\* else remember it and append the candidate; an exception leaves the loop
Accept(st, yields) ==
    IF yields = << >> \/ st.exc # "none" THEN st
    ELSE LET y == Head(yields)
             key == <<y.obj.container_type, y.obj.offset>>
         IN  IF y.exc # "none" THEN [st EXCEPT !.exc = y.exc]
             ELSE IF key \in st.seen THEN Accept(st, Tail(yields))
             ELSE Accept([st EXCEPT !.seen = @ \cup {key},
                                    !.discovered = Append(@, y.obj)],
                         Tail(yields))

RECURSIVE Probe(_, _, _)
\* the targeted probes from the i-th entry of DEFAULT_SCAN_OFFSETS on
Probe(f, i, st) ==
    IF i > Len(DEFAULT_SCAN_OFFSETS) \/ st.exc # "none" THEN st
    ELSE LET base_offset == DEFAULT_SCAN_OFFSETS[i]
             block == ReadAt(f.content, base_offset, HEADER_WINDOW)
         IN  Probe(f, i + 1, Accept(st, _scan_block(block, base_offset, f.path)))

\* the heuristic VeraCrypt/TrueCrypt candidate built from the offset-0 window
Heuristic(f, st) ==
    IF st.exc # "none" THEN st
    ELSE IF \E i \in 1..Len(st.discovered) :
              st.discovered[i].container_type \in {"veracrypt", "truecrypt"}
    THEN st
    ELSE LET header_block == ReadAt(f.content, 0, HEADER_WINDOW)
             confidence == _veracrypt_confidence(f.suffix, header_block)
         IN  IF confidence = {} THEN st
             ELSE LET c == CHOOSE x \in confidence : TRUE
                      made == ContainerCandidate(
                                [candidate_id |-> "uuid4",
                                 source_path |-> f.path,
                                 offset |-> 0,
                                 container_type |-> "veracrypt",
                                 confidence |-> c,
                                 notes |-> IF c >= 60 THEN "high entropy and extension"
                                           ELSE "extension (heuristic)"])
                  IN  IF made.exc # "none" THEN [st EXCEPT !.exc = made.exc]
                      ELSE [st EXCEPT !.discovered = Append(@, made.obj)]

\* len(tail) after a chunk has been read: tail = block[-overlap:] if overlap > 0
NextTail(block, overlap) == IF overlap > 0 THEN LastBytes(block, overlap) ELSE << >>

RECURSIVE Sweep(_, _, _, _, _)
\* the streaming loop, entered with the file position and the tail
Sweep(f, bs, offset, tail, st) ==
    IF st.exc # "none" THEN st
    ELSE LET block == ReadAt(f.content, offset, bs)
         IN  IF block = << >> THEN st
             ELSE LET combined == tail \o block
                      base_offset == offset - Len(tail)
                      overlap == Max({Len(BITLOCKER_HEADER), Len(LUKS_MAGIC)}) - 1
                  IN  Sweep(f, bs, offset + Len(block), NextTail(block, overlap),
                            Accept(st, _scan_block(combined, base_offset, f.path)))

\* scan_file_for_containers(file_path, block_size): the exception it raises
\* ("none" when it returns) and the list it has built
scan_file_for_containers(f, bs) ==
    IF ~f.readable THEN [exc |-> "OSError", discovered |-> << >>]
    ELSE LET st == Sweep(f, bs, 0, << >>, Heuristic(f, Probe(f, 1, ScanLocals)))
         IN  [exc |-> st.exc,
              discovered |-> IF st.exc = "none" THEN st.discovered ELSE << >>]

----------------------------------------------------------------------------
(* cli/main.py.  Its first statements import the names it uses; the names  *)
(* detector/scanner.py binds are the ones an import from it can find.       *)

ScannerNames ==
    {"os", "stat", "uuid", "Path", "Callable", "Iterable", "Optional", "get_logger",
     "ContainerCandidate", "ContainerType", "estimate_entropy", "BITLOCKER_HEADER",
     "DEFAULT_SCAN_OFFSETS", "HEADER_WINDOW", "LUKS_MAGIC", "VERACRYPT_EXTENSIONS",
     "LOGGER", "_scan_block", "_veracrypt_confidence", "_is_reparse_point",
     "_iter_files", "scan_file_for_containers", "scan_path_for_containers"}

\* from ..detector.scanner import scan_image_for_containers
ImportFromScanner(name) == IF name \in ScannerNames THEN "none" ELSE "ImportError"

\* the scan-disk command: loading cli/main.py runs its imports before any
\* command body; a failing import ends the command with that exception
CliScanDisk ==
    /\ pc = "start"
    /\ command = "scan_disk"
    /\ exc' = ImportFromScanner("scan_image_for_containers")
    /\ pc' = IF exc' = "none" THEN "imported" ELSE "raised"
    /\ UNCHANGED <<stack, pending, visited, walked, yielded, opened, events, results>>
    /\ UNCHANGED <<file, block_size, ret, fsVars, ledgerVars, io, cancel>>

----------------------------------------------------------------------------
(* The file system below the root.  A directory node lists entries         *)
(* [name, kind, node, statfails]; kind is "file", "dir" (a real             *)
(* subdirectory), "symlink" (a symbolic link to the directory node),        *)
(* "junction" (a reparse point that is no symbolic link) or "mount" (the    *)
(* directory node mounted a second time, with its own device and inode).    *)

\* entry.is_dir() in os.walk, which follows links
entry_is_dir(e) == e.kind \in {"dir", "symlink", "junction", "mount"}

\* candidate.is_symlink()
is_symlink(e) == e.kind = "symlink"

\* os.path.islink(new_path) inside os.walk
os_path_islink(e) == e.kind = "symlink"

\* the reparse attribute never looked at
_is_reparse_point_never(e) == FALSE

\* _is_reparse_point: a failing stat, or a platform without
\* st_file_attributes, answers False
_is_reparse_point(e) == ~e.statfails /\ e.kind = "junction"

\* (st_dev, st_ino) of candidate.stat(follow_symlinks=False): the directory's
\* own identity, or the identity of the link itself
StatKey(e) ==
    IF e.kind \in {"dir", "mount"} THEN <<"inode", e.node>> ELSE <<e.kind, e.name>>

RECURSIVE SafeDirnames(_, _, _)
\* the loop over dirnames of _iter_files: the names kept and the keys seen
SafeDirnames(dirnames, seen, safe) ==
    IF dirnames = << >> THEN [safe |-> safe, visited |-> seen]
    ELSE LET e == Head(dirnames)
         IN  IF is_symlink(e) \/ _is_reparse_point(e)
             THEN SafeDirnames(Tail(dirnames), seen, safe)
             ELSE IF e.statfails
             THEN SafeDirnames(Tail(dirnames), seen, safe)
             ELSE IF StatKey(e) \in seen
             THEN SafeDirnames(Tail(dirnames), seen, safe)
             ELSE SafeDirnames(Tail(dirnames), seen \cup {StatKey(e)}, Append(safe, e))

\* followlinks argument the code passes to os.walk
os_walk_followlinks == FALSE

\* os.walk descends into a name left in dirnames unless it is a link
Descends(e) == os_walk_followlinks \/ ~os_path_islink(e)

\* most directory levels below which the model stops listing
MaxDepth == 6

\* os.walk(root, followlinks=True) without the pruning of dirnames
WalkListing_followlinks(frame, seen) ==
    LET listing == tree[frame.node]
        dirnames == SelectSeq(listing.entries, entry_is_dir)
        filenames == SelectSeq(listing.entries, LAMBDA e : ~entry_is_dir(e))
    IN  [frames |-> [i \in 1..Len(dirnames) |->
                        [path |-> Append(frame.path, dirnames[i].name),
                         node |-> dirnames[i].node]],
         files |-> [i \in 1..Len(filenames) |->
                        [path |-> Append(frame.path, filenames[i].name),
                         node |-> filenames[i].node]],
         visited |-> seen]

\* for one listed directory: the frames os.walk will list next and the files
\* _iter_files yields, after the pruning of dirnames
WalkListing(frame, seen) ==
    LET listing == tree[frame.node]
        dirnames == SelectSeq(listing.entries, entry_is_dir)
        filenames == SelectSeq(listing.entries, LAMBDA e : ~entry_is_dir(e))
        kept == SafeDirnames(dirnames, seen, << >>)
        descend == SelectSeq(kept.safe, Descends)
    IN  [frames |-> [i \in 1..Len(descend) |->
                        [path |-> Append(frame.path, descend[i].name),
                         node |-> descend[i].node]],
         files |-> [i \in 1..Len(filenames) |->
                        [path |-> Append(frame.path, filenames[i].name),
                         node |-> filenames[i].node]],
         visited |-> kept.visited]

----------------------------------------------------------------------------
(* scan_path_for_containers *)

NoEvent == [type |-> "none", path |-> << >>, candidate |-> NoCandidate, reason |-> ""]

ProgressEvent(path) == [NoEvent EXCEPT !.type = "progress", !.path = path]

ErrorEvent(path, reason) == [NoEvent EXCEPT !.type = "error", !.path = path, !.reason = reason]

ResultEvent(path, candidate) ==
    [NoEvent EXCEPT !.type = "result", !.path = path, !.candidate = candidate]

\* a callback is called only when the caller installed it
Emit(installed, evs) == IF installed THEN evs ELSE << >>

\* the argument file_path of scan_file_for_containers for a yielded file
FileAt(f) == [path |-> f.path, suffix |-> files[f.node].suffix,
              content |-> files[f.node].content, readable |-> files[f.node].readable]

\* the handle closed only when the body runs to its end
WithExit_onReturn(e) == e = "none"

\* "with file_path.open("rb") as handle": leaving the block closes the
\* handle, by return and by exception alike
WithExit(e) == TRUE

\* what one call of scan_file_for_containers does to handles: a file that
\* cannot be opened gives no handle
HandleOps(f, out) ==
    IF ~f.readable THEN << >>
    ELSE <<[op |-> "open", path |-> f.path]>>
         \o (IF WithExit(out.exc) THEN <<[op |-> "close", path |-> f.path]>> ELSE << >>)

\* the loop body with on_progress called after the scan of the file
LoopBody_progressLast(f) ==
    LET progress == Emit(sink.on_progress, <<ProgressEvent(f.path)>>)
        out == scan_file_for_containers(FileAt(f), block_size)
    IN  IF out.exc # "none"
        THEN [events |-> Emit(sink.on_error, <<ErrorEvent(f.path, out.exc)>>) \o progress,
              results |-> << >>]
        ELSE [events |-> Emit(sink.on_result,
                                 [i \in 1..Len(out.discovered) |->
                                     ResultEvent(f.path, out.discovered[i])])
                         \o progress,
              results |-> out.discovered]

\* the loop body with the failure reported where it is caught and again
\* on the way to the next path
LoopBody_errorTwice(f) ==
    LET progress == Emit(sink.on_progress, <<ProgressEvent(f.path)>>)
        out == scan_file_for_containers(FileAt(f), block_size)
    IN  IF out.exc # "none"
        THEN [events |-> progress \o Emit(sink.on_error, <<ErrorEvent(f.path, out.exc),
                                                            ErrorEvent(f.path, out.exc)>>),
              results |-> << >>]
        ELSE [events |-> progress
                         \o Emit(sink.on_result,
                                 [i \in 1..Len(out.discovered) |->
                                     ResultEvent(f.path, out.discovered[i])]),
              results |-> out.discovered]

\* one iteration of "for file_path in _iter_files(root)": what it appends to
\* the sink's calls and to results
LoopBody(f) ==
    LET progress == Emit(sink.on_progress, <<ProgressEvent(f.path)>>)
        out == scan_file_for_containers(FileAt(f), block_size)
    IN  IF out.exc # "none"
        THEN [events |-> progress \o Emit(sink.on_error, <<ErrorEvent(f.path, out.exc)>>),
              results |-> << >>]
        ELSE [events |-> progress
                         \o Emit(sink.on_result,
                                 [i \in 1..Len(out.discovered) |->
                                     ResultEvent(f.path, out.discovered[i])]),
              results |-> out.discovered]

\* the check of the root left out
RootMissing_unchecked(r) == FALSE

\* if not root.exists()
RootMissing(r) == ~r.exists

\* "return results" inside the loop: the scan returns after any file
IterExhausted_insideLoop == yielded # << >> \/ (pending = << >> /\ stack = << >>)

\* the generator _iter_files has nothing left to yield
IterExhausted == pending = << >> /\ stack = << >>

\* scan_path_for_containers up to the first pull from _iter_files: a missing
\* root raises FileNotFoundError; a directory root starts os.walk, any other
\* root is yielded itself
ScanStart ==
    /\ pc = "start"
    /\ command = "scan_path_for_containers"
    /\ IF RootMissing(root)
       THEN /\ pc' = "raised"
            /\ exc' = "FileNotFoundError"
            /\ UNCHANGED <<stack, pending>>
       ELSE /\ pc' = "walking"
            /\ exc' = exc
            /\ IF root.is_dir
               THEN stack' = <<[path |-> <<"root">>, node |-> root.node]>> /\ pending' = << >>
               ELSE stack' = << >> /\ pending' = <<[path |-> <<"root">>, node |-> root.node]>>
    /\ UNCHANGED <<visited, walked, yielded, opened, events, results>>
    /\ UNCHANGED <<file, block_size, ret, fsVars, ledgerVars, io, cancel>>

\* os.walk lists the next directory and _iter_files prunes its dirnames; a
\* directory that cannot be listed is passed over (onerror is None)
WalkDir ==
    /\ pc = "walking"
    /\ pending = << >>
    /\ stack # << >>
    /\ Len(Head(stack).path) <= MaxDepth
    /\ LET frame == Head(stack)
       IN  IF ~tree[frame.node].listable
           THEN /\ stack' = Tail(stack)
                /\ UNCHANGED <<pending, visited>>
           ELSE LET l == WalkListing(frame, visited)
                IN  /\ stack' = l.frames \o Tail(stack)
                    /\ pending' = l.files
                    /\ visited' = l.visited
    /\ walked' = Append(walked, Head(stack).path)
    /\ UNCHANGED <<pc, exc, yielded, opened, events, results>>
    /\ UNCHANGED <<file, block_size, ret, fsVars, ledgerVars, io, cancel>>

\* the loop body for the next yielded path
ScanNextFile ==
    /\ pc = "walking"
    /\ pending # << >>
    /\ LET f == Head(pending)
           body == LoopBody(f)
       IN  /\ yielded' = Append(yielded, f.path)
           /\ opened' = Append(opened, f.path)
           /\ events' = events \o body.events
           /\ results' = results \o body.results
           /\ io' = io \o <<[op |-> "next", path |-> f.path]>>
                       \o HandleOps(FileAt(f), scan_file_for_containers(FileAt(f), block_size))
    /\ pending' = Tail(pending)
    /\ UNCHANGED <<pc, exc, stack, visited, walked>>
    /\ UNCHANGED <<file, block_size, ret, fsVars, ledgerVars, cancel>>

\* _iter_files is exhausted: return results
ScanReturn ==
    /\ pc = "walking"
    /\ IterExhausted
    /\ pc' = "returned"
    /\ UNCHANGED <<exc, stack, pending, visited, walked, yielded, opened, events, results>>
    /\ UNCHANGED <<file, block_size, ret, fsVars, ledgerVars, io, cancel>>

----------------------------------------------------------------------------
(* The files a scan is given. *)

\* n zero bytes
Fill(n) == [i \in 1..n |-> 0]

\* s with the byte string magic written at the 0-based offset off
Put(s, magic, off) ==
    [i \in 1..Len(s) |-> IF off < i /\ i <= off + Len(magic) THEN magic[i - off] ELSE s[i]]

Magics == {BITLOCKER_HEADER, LUKS_MAGIC}

\* where a magic fits into n bytes
Placements(n) == {p \in Magics \X (0..n) : p[2] + Len(p[1]) <= n}

SmallLens == {0, 1, 8, 14, MaxFileLen}

\* zero-filled files of a small length with at most two magics written into them
SmallContents ==
    UNION {{Fill(n)}
           \cup {Put(Fill(n), p[1], p[2]) : p \in Placements(n)}
           \cup {Put(Put(Fill(n), p[1], p[2]), q[1], q[2]) :
                     p \in Placements(n), q \in Placements(n)}
           : n \in SmallLens}

\* files that reach the second and the third probe offset, with a magic at
\* or just before the offset and room bytes from the offset on
LargeContents(room) ==
    {Put(Fill(DEFAULT_SCAN_OFFSETS[2] + room), m, o) :
         m \in Magics, o \in {DEFAULT_SCAN_OFFSETS[2] - 6, DEFAULT_SCAN_OFFSETS[2]}}
    \cup {Put(Fill(DEFAULT_SCAN_OFFSETS[3] + room), BITLOCKER_HEADER,
              DEFAULT_SCAN_OFFSETS[3])}

Suffixes == {".bin", ".hc", ".TC"}

BlockSizes == {1, 6, 8, 10, DEFAULT_SCAN_OFFSETS[2], DEFAULT_BLOCK_SIZE}

\* most chunks a sweep of the model reads
MaxChunks == 32

\* every occurrence of a magic in a file: <<container kind, 0-based offset>>
Occurrences(content) ==
    {<<"bitlocker", i>> : i \in Positions(content, BITLOCKER_HEADER)}
    \cup {<<"luks", i>> : i \in Positions(content, LUKS_MAGIC)}

----------------------------------------------------------------------------
(* The trees and files a path scan is given. *)

DirNodes == {"D0", "D1", "D2"}

FileNodes == {"F0", "F1", "F2"}

Entry(name, kind, node, statfails) ==
    [name |-> name, kind |-> kind, node |-> node, statfails |-> statfails]

\* what a directory may hold besides its real files and subdirectories: at
\* most one link, junction or second mount of a directory of the tree
Extras(name) ==
    {<< >>} \cup {<<Entry(name, k, n, sf)>> :
                     k \in {"symlink", "junction", "mount"}, n \in DirNodes, sf \in BOOLEAN}

\* root/a, root/sub/b, root/sub/deep/c, with the extra entries x1 in sub and
\* x2 in deep; the directories in unlistable cannot be listed
Tree(x1, x2, deepStatFails, unlistable) ==
    [d \in DirNodes |->
       [listable |-> d \notin unlistable,
        entries |->
          CASE d = "D0" -> <<Entry("a", "file", "F0", FALSE), Entry("sub", "dir", "D1", FALSE)>>
            [] d = "D1" -> <<Entry("b", "file", "F1", FALSE),
                             Entry("deep", "dir", "D2", deepStatFails)>> \o x1
            [] d = "D2" -> <<Entry("c", "file", "F2", FALSE)>> \o x2]]

PlainTree == Tree(<< >>, << >>, FALSE, {})

\* deep holds a symbolic link back to the root
CyclicTree == Tree(<< >>, <<Entry("x2", "symlink", "D0", FALSE)>>, FALSE, {})

AllTrees ==
    {Tree(x1, x2, sf, u) :
        x1 \in Extras("x1"), x2 \in Extras("x2"), sf \in BOOLEAN,
        u \in {{}} \cup {{d} : d \in DirNodes}}

\* the files a path scan meets: unreadable, without a signature, with a
\* BitLocker or a LUKS signature, and an empty file with a container extension
FileKinds ==
    {[suffix |-> ".bin", content |-> << >>, readable |-> FALSE],
     [suffix |-> ".bin", content |-> Fill(14), readable |-> TRUE],
     [suffix |-> ".bin", content |-> Put(Fill(14), BITLOCKER_HEADER, 0), readable |-> TRUE],
     [suffix |-> ".bin", content |-> Put(Fill(14), LUKS_MAGIC, 7), readable |-> TRUE],
     [suffix |-> ".hc", content |-> << >>, readable |-> TRUE]}

Roots ==
    {[exists |-> FALSE, is_dir |-> FALSE, node |-> "F0"],
     [exists |-> TRUE, is_dir |-> FALSE, node |-> "F0"],
     [exists |-> TRUE, is_dir |-> TRUE, node |-> "D0"]}

Sinks == [on_progress : BOOLEAN, on_result : BOOLEAN, on_error : BOOLEAN]

AllInstalled == [on_progress |-> TRUE, on_result |-> TRUE, on_error |-> TRUE]

----------------------------------------------------------------------------
(* core/models.py: the records of a case and their persisted form.  In     *)
(* memory a Path is <<"Path", s>>, a datetime <<"datetime", n>>, an Enum    *)
(* member <<class, value>>; None is the string "None" where a str may stand *)
(* and <<"None", 0>> or <<"None", "">> where a datetime or a Path may       *)
(* stand.  In the persisted form a                                          *)
(* path is the string s, a datetime its ISO text <<"iso8601", n>>, an Enum  *)
(* member its value, None is null ("null" or <<"null", 0>>), a list is      *)
(* [json |-> "array", items |-> ...] and a dict is a function of its keys.  *)

None == "None"

NoneTime == <<"None", 0>>

NonePath == <<"None", "">>

JNull == "null"

JNullTime == <<"null", 0>>

JNullValue == [json |-> "null", items |-> << >>]

JArray(items) == [json |-> "array", items |-> items]

\* isinstance(data, dict), for the values the persisted form is built of
IsObject(data) == "json" \notin DOMAIN data

Path(s) == <<"Path", s>>

\* str(path)
PathStr(p) == p[2]

datetime(n) == <<"datetime", n>>

\* datetime.isoformat()
isoformat(d) == <<"iso8601", d[2]>>

\* what a constructor or a conversion gives: the exception it raises, or
\* "none" and the object
Raise(e) == [exc |-> e, obj |-> << >>]

Return(o) == [exc |-> "none", obj |-> o]

\* datetime.fromisoformat(text)
fromisoformat(text) ==
    IF text[1] = "iso8601" THEN Return(datetime(text[2])) ELSE Raise("ValueError")

ContainerTypeValues == {"bitlocker", "veracrypt", "truecrypt", "luks", "unknown"}

EvidenceTypeValues == {"disk_image", "memory_dump", "config", "other"}

ArtefactTypeValues == {"os_context", "memory", "detection", "other"}

UnlockResultValues == {"success", "failure", "error"}

\* Enum(value): the member with that value, ValueError when there is none
EnumOf(class, values, v) == IF v \in values THEN Return(<<class, v>>) ELSE Raise("ValueError")

\* data[key] for each key, in order: KeyError at the first key the dict lacks
Lookup(data, keys) ==
    IF \E i \in 1..Len(keys) : keys[i] \notin DOMAIN data THEN "KeyError" ELSE "none"

\* data.get(key, default)
Get(data, key, default) == IF key \in DOMAIN data THEN data[key] ELSE default

\* [cls.from_dict(x) for x in value]: the first exception ends the
\* comprehension.  Iterating null raises TypeError; an empty dict has no
\* keys to iterate over
FromList(value, objs) ==
    IF value.json = "null" THEN Raise("TypeError")
    ELSE IF \E i \in 1..Len(objs) : objs[i].exc # "none"
    THEN Raise(objs[CHOOSE i \in 1..Len(objs) :
                      /\ objs[i].exc # "none"
                      /\ \A j \in 1..(i - 1) : objs[j].exc = "none"].exc)
    ELSE Return([i \in 1..Len(objs) |-> objs[i].obj])

Evidence_to_dict(e) ==
    [evidence_id |-> e.evidence_id, path |-> PathStr(e.path), description |-> e.description,
     evidence_type |-> e.evidence_type[2], sha256 |-> e.sha256, size |-> e.size]

Evidence_from_dict(data) ==
    IF ~IsObject(data) THEN Raise("TypeError")
    ELSE IF Lookup(data, <<"evidence_id", "path", "description", "evidence_type">>) # "none"
    THEN Raise("KeyError")
    ELSE IF EnumOf("EvidenceType", EvidenceTypeValues, data.evidence_type).exc # "none"
    THEN Raise("ValueError")
    ELSE IF Lookup(data, <<"sha256", "size">>) # "none" THEN Raise("KeyError")
    ELSE Return([evidence_id |-> data.evidence_id, path |-> Path(data.path),
                 description |-> data.description,
                 evidence_type |-> <<"EvidenceType", data.evidence_type>>,
                 sha256 |-> data.sha256, size |-> data.size])

ContainerCandidate_to_dict(c) ==
    [candidate_id |-> c.candidate_id, evidence_id |-> c.evidence_id, offset |-> c.offset,
     container_type |-> c.container_type, confidence |-> c.confidence, notes |-> c.notes]

ContainerCandidate_from_dict(data) ==
    IF ~IsObject(data) THEN Raise("TypeError")
    ELSE IF Lookup(data, <<"candidate_id", "evidence_id", "offset", "container_type">>) # "none"
    THEN Raise("KeyError")
    ELSE IF data.container_type \notin ContainerTypeValues THEN Raise("ValueError")
    ELSE Return([candidate_id |-> data.candidate_id, evidence_id |-> data.evidence_id,
                 offset |-> data.offset, container_type |-> data.container_type,
                 confidence |-> Get(data, "confidence", 0),
                 notes |-> Get(data, "notes", "")])

Artefact_to_dict(a) ==
    [artefact_id |-> a.artefact_id, description |-> a.description, source |-> a.source,
     artefact_type |-> a.artefact_type[2],
     path |-> IF a.path = NonePath THEN JNull ELSE PathStr(a.path),
     timestamp |-> IF a.timestamp = NoneTime THEN JNullTime ELSE isoformat(a.timestamp)]

\* the artefact read back without its timestamp
Artefact_from_dict_noTimestamp(data) ==
    IF ~IsObject(data) THEN Raise("TypeError")
    ELSE LET p == Get(data, "path", JNull)
         IN  IF Lookup(data, <<"artefact_id", "description", "source", "artefact_type">>) # "none"
             THEN Raise("KeyError")
             ELSE IF data.artefact_type \notin ArtefactTypeValues THEN Raise("ValueError")
             ELSE Return([artefact_id |-> data.artefact_id, description |-> data.description,
                          source |-> data.source,
                          artefact_type |-> <<"ArtefactType", data.artefact_type>>,
                          path |-> IF p \in {JNull, ""} THEN NonePath ELSE Path(p),
                          timestamp |-> NoneTime])

Artefact_from_dict(data) ==
    IF ~IsObject(data) THEN Raise("TypeError")
    ELSE LET ts == Get(data, "timestamp", JNullTime)
             p == Get(data, "path", JNull)
         IN  IF Lookup(data, <<"artefact_id", "description", "source", "artefact_type">>) # "none"
             THEN Raise("KeyError")
             ELSE IF data.artefact_type \notin ArtefactTypeValues THEN Raise("ValueError")
             ELSE IF ts # JNullTime /\ fromisoformat(ts).exc # "none" THEN Raise("ValueError")
             ELSE Return([artefact_id |-> data.artefact_id, description |-> data.description,
                          source |-> data.source,
                          artefact_type |-> <<"ArtefactType", data.artefact_type>>,
                          path |-> IF p \in {JNull, ""} THEN NonePath ELSE Path(p),
                          timestamp |-> IF ts = JNullTime THEN NoneTime
                                        ELSE fromisoformat(ts).obj])

TimelineEvent_to_dict(t) ==
    [description |-> t.description, timestamp |-> isoformat(t.timestamp),
     artefact_id |-> IF t.artefact_id = None THEN JNull ELSE t.artefact_id]

TimelineEvent_from_dict(data) ==
    IF ~IsObject(data) THEN Raise("TypeError")
    ELSE IF Lookup(data, <<"description", "timestamp">>) # "none" THEN Raise("KeyError")
    ELSE IF fromisoformat(data.timestamp).exc # "none" THEN Raise("ValueError")
    ELSE LET a == Get(data, "artefact_id", JNull)
         IN  Return([description |-> data.description,
                     timestamp |-> fromisoformat(data.timestamp).obj,
                     artefact_id |-> IF a = JNull THEN None ELSE a])

CustodyEvent_to_dict(c) ==
    [timestamp |-> isoformat(c.timestamp), actor |-> c.actor, action |-> c.action]

CustodyEvent_from_dict(data) ==
    IF ~IsObject(data) THEN Raise("TypeError")
    ELSE IF Lookup(data, <<"timestamp">>) # "none" THEN Raise("KeyError")
    ELSE IF fromisoformat(data.timestamp).exc # "none" THEN Raise("ValueError")
    ELSE IF Lookup(data, <<"actor", "action">>) # "none" THEN Raise("KeyError")
    ELSE Return([timestamp |-> fromisoformat(data.timestamp).obj,
                 actor |-> data.actor, action |-> data.action])

UnlockAttempt_to_dict(u) ==
    [container_id |-> u.container_id, method |-> u.method, secret_id |-> u.secret_id,
     result |-> u.result[2], message |-> u.message]

UnlockAttempt_from_dict(data) ==
    IF ~IsObject(data) THEN Raise("TypeError")
    ELSE IF Lookup(data, <<"container_id", "method", "secret_id", "result">>) # "none"
    THEN Raise("KeyError")
    ELSE IF data.result \notin UnlockResultValues THEN Raise("ValueError")
    ELSE IF Lookup(data, <<"message">>) # "none" THEN Raise("KeyError")
    ELSE Return([container_id |-> data.container_id, method |-> data.method,
                 secret_id |-> data.secret_id, result |-> <<"UnlockResult", data.result>>,
                 message |-> data.message])

CaseMetadata_to_dict(m) ==
    [case_id |-> m.case_id, examiner |-> IF m.examiner = None THEN JNull ELSE m.examiner,
     created_at |-> isoformat(m.created_at)]

CaseMetadata_from_dict(data) ==
    IF ~IsObject(data) THEN Raise("TypeError")
    ELSE IF Lookup(data, <<"case_id">>) # "none" THEN Raise("KeyError")
    ELSE IF Lookup(data, <<"created_at">>) # "none" THEN Raise("KeyError")
    ELSE IF fromisoformat(data.created_at).exc # "none" THEN Raise("ValueError")
    ELSE LET ex == Get(data, "examiner", JNull)
         IN  Return([case_id |-> data.case_id,
                     examiner |-> IF ex = JNull THEN None ELSE ex,
                     created_at |-> fromisoformat(data.created_at).obj])

\* the collections of a Case, in the order of its fields
CaseCollections ==
    <<"evidence", "containers", "artefacts", "timeline", "unlock_attempts", "custody_log">>

\* Case(root_path=..., metadata=...): the lists default to empty
Case(root_path, metadata) ==
    [root_path |-> root_path, metadata |-> metadata, evidence |-> << >>, containers |-> << >>,
     artefacts |-> << >>, timeline |-> << >>, unlock_attempts |-> << >>, custody_log |-> << >>]

Case_to_dict(case) ==
    [root_path |-> PathStr(case.root_path),
     metadata |-> CaseMetadata_to_dict(case.metadata),
     evidence |-> JArray([i \in 1..Len(case.evidence) |-> Evidence_to_dict(case.evidence[i])]),
     containers |-> JArray([i \in 1..Len(case.containers) |->
                               ContainerCandidate_to_dict(case.containers[i])]),
     artefacts |-> JArray([i \in 1..Len(case.artefacts) |-> Artefact_to_dict(case.artefacts[i])]),
     timeline |-> JArray([i \in 1..Len(case.timeline) |->
                             TimelineEvent_to_dict(case.timeline[i])]),
     unlock_attempts |-> JArray([i \in 1..Len(case.unlock_attempts) |->
                                    UnlockAttempt_to_dict(case.unlock_attempts[i])]),
     custody_log |-> JArray([i \in 1..Len(case.custody_log) |->
                                CustodyEvent_to_dict(case.custody_log[i])])]

\* Case.from_dict: root_path and metadata are looked up, a collection that is
\* not there is taken as empty
Case_from_dict(data) ==
    IF ~IsObject(data) THEN Raise("TypeError")
    ELSE IF Lookup(data, <<"root_path", "metadata">>) # "none" THEN Raise("KeyError")
    ELSE LET arr(key) == Get(data, key, JArray(<< >>))
             metadata == CaseMetadata_from_dict(data.metadata)
             evidence == FromList(arr("evidence"),
                            [i \in 1..Len(arr("evidence").items) |->
                                Evidence_from_dict(arr("evidence").items[i])])
             containers == FromList(arr("containers"),
                            [i \in 1..Len(arr("containers").items) |->
                                ContainerCandidate_from_dict(arr("containers").items[i])])
             artefacts == FromList(arr("artefacts"),
                            [i \in 1..Len(arr("artefacts").items) |->
                                Artefact_from_dict(arr("artefacts").items[i])])
             timeline == FromList(arr("timeline"),
                            [i \in 1..Len(arr("timeline").items) |->
                                TimelineEvent_from_dict(arr("timeline").items[i])])
             unlock_attempts == FromList(arr("unlock_attempts"),
                            [i \in 1..Len(arr("unlock_attempts").items) |->
                                UnlockAttempt_from_dict(arr("unlock_attempts").items[i])])
             custody_log == FromList(arr("custody_log"),
                            [i \in 1..Len(arr("custody_log").items) |->
                                CustodyEvent_from_dict(arr("custody_log").items[i])])
             parts == <<metadata, evidence, containers, artefacts, timeline,
                        unlock_attempts, custody_log>>
         IN  IF \E i \in 1..Len(parts) : parts[i].exc # "none"
             THEN Raise(parts[CHOOSE i \in 1..Len(parts) :
                                /\ parts[i].exc # "none"
                                /\ \A j \in 1..(i - 1) : parts[j].exc = "none"].exc)
             ELSE Return([root_path |-> Path(data.root_path), metadata |-> metadata.obj,
                          evidence |-> evidence.obj, containers |-> containers.obj,
                          artefacts |-> artefacts.obj, timeline |-> timeline.obj,
                          unlock_attempts |-> unlock_attempts.obj,
                          custody_log |-> custody_log.obj])

----------------------------------------------------------------------------
(* case.json and the json module.  The text of a file is kept as the value *)
(* it encodes, its length (one unit for the case and one for every entry    *)
(* of a collection) and whether it is the whole text of one document.       *)

\* no case.json in the case directory
NoSnapshot == [exists |-> FALSE, intact |-> FALSE, size |-> 0, data |-> << >>]

\* case.json just after open(..., "w"): it is there and empty
Truncated == [exists |-> TRUE, intact |-> FALSE, size |-> 0, data |-> << >>]

\* json.dumps(data, indent=2) of the dict of a case
json_dumps(data) ==
    [exists |-> TRUE, intact |-> TRUE,
     size |-> 1 + Len(data.evidence.items) + Len(data.containers.items)
                + Len(data.artefacts.items) + Len(data.timeline.items)
                + Len(data.unlock_attempts.items) + Len(data.custody_log.items),
     data |-> data]

\* case_file.read_text() followed by json.loads
json_loads(text) ==
    IF ~text.exists THEN Raise("FileNotFoundError")
    ELSE IF ~text.intact THEN Raise("JSONDecodeError")
    ELSE Return(text.data)

\* the file after text has been written at its start and the handle closed:
\* what was there beyond the end of text stays there
Overwrite(old, text) ==
    IF old.size <= text.size THEN text
    ELSE [exists |-> TRUE, intact |-> FALSE, size |-> old.size, data |-> << >>]

\* Path.write_text: open(mode="w") empties the file, then the text is
\* written.  On a read-only store the open fails, on a full one the write.
write_text(old, text, disk) ==
    CASE disk = "readonly" -> [exc |-> "OSError", file |-> old]
      [] disk = "full" -> [exc |-> "OSError", file |-> Truncated]
      [] OTHER -> [exc |-> "none", file |-> Overwrite(Truncated, text)]

----------------------------------------------------------------------------
(* core/pipeline.py.  An operation gives the exception it raises ("none"   *)
(* when it returns), the case object as it leaves it, case.json as it       *)
(* leaves it, and the value it returns.                                     *)

Outcome(e, case, f, value) == [exc |-> e, case |-> case, file |-> f, value |-> value]

\* no Case object
NoCase == << >>

NoValue == << >>

\* save_case(case)
save_case(case, f, disk) ==
    LET w == write_text(f, json_dumps(Case_to_dict(case)), disk)
    IN  Outcome(w.exc, case, w.file, NoValue)

\* create_case(root_path, examiner): a save that raises leaves the caller
\* without a case
create_case(root_path, examiner, uuid, now, f, disk) ==
    LET metadata == [case_id |-> uuid, examiner |-> examiner, created_at |-> now]
        case == Case(root_path, metadata)
        saved == save_case(case, f, disk)
    IN  IF saved.exc # "none" THEN Outcome(saved.exc, NoCase, saved.file, NoValue)
        ELSE Outcome("none", case, saved.file, case)

\* load_case(root_path)
load_case(f) ==
    LET data == json_loads(f)
    IN  IF data.exc # "none" THEN Outcome(data.exc, NoCase, f, NoValue)
        ELSE LET case == Case_from_dict(data.obj)
             IN  IF case.exc # "none" THEN Outcome(case.exc, NoCase, f, NoValue)
                 ELSE Outcome("none", case.obj, f, case.obj)

\* core/io.py compute_sha256(path): the digest of the content, as a value
\* that differs when the content does
compute_sha256(ev) == IF ~ev.exists THEN Raise("FileNotFoundError")
                      ELSE Return(<<"sha256", ev.content>>)

\* the examiner taken as it is
CustodyActor_asGiven(examiner) == examiner

\* case.metadata.examiner or "unknown"
CustodyActor(examiner) == IF examiner \in {None, ""} THEN "unknown" ELSE examiner

\* path.stat().st_size
st_size(ev) == IF ~ev.stat THEN Raise("PermissionError") ELSE Return(Len(ev.content))

\* the evidence appended with its hash, the size read afterwards
add_evidence_append_sizeLast(case, ev, description, evidence_type, uuid, now) ==
    LET sha256 == compute_sha256(ev)
        size == st_size(ev)
    IN  IF sha256.exc # "none" THEN Outcome(sha256.exc, case, NoSnapshot, NoValue)
        ELSE LET evidence == [evidence_id |-> uuid, path |-> ev.path,
                              description |-> description, evidence_type |-> evidence_type,
                              sha256 |-> sha256.obj, size |-> Len(ev.content)]
                 custody == [timestamp |-> now,
                             actor |-> CustodyActor(case.metadata.examiner),
                             action |-> "Added evidence " \o evidence.evidence_id]
                 appended == [case EXCEPT !.evidence = Append(@, evidence)]
             IN  IF size.exc # "none" THEN Outcome(size.exc, appended, NoSnapshot, NoValue)
                 ELSE Outcome("none", [appended EXCEPT !.custody_log = Append(@, custody)],
                              NoSnapshot, evidence)

\* add_evidence up to save_case: the hash is computed and the size read
\* while the Evidence is built, before anything is appended
add_evidence_append(case, ev, description, evidence_type, uuid, now) ==
    LET sha256 == compute_sha256(ev)
    IN  IF sha256.exc # "none" THEN Outcome(sha256.exc, case, NoSnapshot, NoValue)
        ELSE IF st_size(ev).exc # "none"
        THEN Outcome(st_size(ev).exc, case, NoSnapshot, NoValue)
        ELSE LET evidence == [evidence_id |-> uuid, path |-> ev.path,
                              description |-> description, evidence_type |-> evidence_type,
                              sha256 |-> sha256.obj, size |-> st_size(ev).obj]
                 custody == [timestamp |-> now,
                             actor |-> CustodyActor(case.metadata.examiner),
                             action |-> "Added evidence " \o evidence.evidence_id]
             IN  Outcome("none",
                         [case EXCEPT !.evidence = Append(@, evidence),
                                      !.custody_log = Append(@, custody)],
                         NoSnapshot, evidence)

\* the path of the image given as the source of the artefact
DetectionSource_path(candidate) == "image.dd"

\* source=candidate.evidence_id
DetectionSource(candidate) == candidate.evidence_id

\* register_container up to save_case
register_container_append(case, candidate, uuid) ==
    LET artefact == [artefact_id |-> uuid,
                     description |-> "Detected container at offset " \o ToString(candidate.offset),
                     source |-> DetectionSource(candidate),
                     artefact_type |-> <<"ArtefactType", "detection">>,
                     path |-> NonePath, timestamp |-> NoneTime]
    IN  Outcome("none",
                [case EXCEPT !.containers = Append(@, candidate),
                             !.artefacts = Append(@, artefact)],
                NoSnapshot, NoValue)

RECURSIVE InsertByTimestamp(_, _)
\* sorted with e put after the entries whose timestamp is not later
InsertByTimestamp(sorted, e) ==
    IF sorted = << >> THEN <<e>>
    ELSE IF Head(sorted).timestamp[2] <= e.timestamp[2]
    THEN <<Head(sorted)>> \o InsertByTimestamp(Tail(sorted), e)
    ELSE <<e>> \o sorted

RECURSIVE SortByTimestamp(_)
\* list.sort(key=lambda e: e.timestamp): ascending and stable
SortByTimestamp(timeline) ==
    IF timeline = << >> THEN << >>
    ELSE InsertByTimestamp(SortByTimestamp(SubSeq(timeline, 1, Len(timeline) - 1)),
                           timeline[Len(timeline)])

\* append without the sort that follows it
add_timeline_event_unsorted(case, description, artefact_id, now) ==
    LET event == [description |-> description, timestamp |-> now, artefact_id |-> artefact_id]
    IN  Outcome("none", [case EXCEPT !.timeline = Append(@, event)], NoSnapshot, event)

\* add_timeline_event up to save_case
add_timeline_event_append(case, description, artefact_id, now) ==
    LET event == [description |-> description, timestamp |-> now, artefact_id |-> artefact_id]
    IN  Outcome("none",
                [case EXCEPT !.timeline = SortByTimestamp(Append(@, event))],
                NoSnapshot, event)

\* the artefact put in the place of the list
add_artefact_append_replacing(case, artefact) ==
    Outcome("none", [case EXCEPT !.artefacts = <<artefact>>], NoSnapshot, NoValue)

\* add_artefact up to save_case
add_artefact_append(case, artefact) ==
    Outcome("none", [case EXCEPT !.artefacts = Append(@, artefact)], NoSnapshot, NoValue)

\* add_unlock_attempt up to save_case
add_unlock_attempt_append(case, attempt) ==
    Outcome("none", [case EXCEPT !.unlock_attempts = Append(@, attempt)], NoSnapshot, NoValue)

\* an operation that returns without having saved
Saved_never(app, f, disk) == Outcome(app.exc, app.case, f, app.value)

\* the in-memory part of an operation followed by save_case(case): the case
\* object keeps what was appended when the save raises
Saved(app, f, disk) ==
    IF app.exc # "none" THEN Outcome(app.exc, app.case, f, NoValue)
    ELSE LET saved == save_case(app.case, f, disk)
         IN  IF saved.exc # "none" THEN Outcome(saved.exc, app.case, saved.file, NoValue)
             ELSE Outcome("none", app.case, saved.file, app.value)

add_evidence(case, ev, description, evidence_type, uuid, now, f, disk) ==
    Saved(add_evidence_append(case, ev, description, evidence_type, uuid, now), f, disk)

register_container(case, candidate, uuid, f, disk) ==
    Saved(register_container_append(case, candidate, uuid), f, disk)

add_timeline_event(case, description, artefact_id, now, f, disk) ==
    Saved(add_timeline_event_append(case, description, artefact_id, now), f, disk)

add_artefact(case, artefact, f, disk) == Saved(add_artefact_append(case, artefact), f, disk)

add_unlock_attempt(case, attempt, f, disk) ==
    Saved(add_unlock_attempt_append(case, attempt), f, disk)

----------------------------------------------------------------------------
(* The clients of a case and what they are given. *)

\* the processes that work on the case directory
Clients == {"A", "B"}

\* str(uuid.uuid4()): the n-th identity drawn
uuid4(n) == "uuid-" \o ToString(n)

\* the readings of datetime.utcnow() a call may get; they need not increase
Readings == {datetime(0), datetime(1)}

\* the reading of the calls whose timestamp orders nothing
Now == datetime(1)

\* most ledger calls of a run
MaxCalls == 4

\* the examiner argument of create_case
Examiners == {None, "", "alice"}

\* the files offered as evidence: one that is there, one that is not, and
\* one that can be read but whose stat() fails afterwards
EvidenceFiles ==
    {[path |-> Path("image.dd"), exists |-> TRUE, stat |-> TRUE, content |-> <<97, 98, 99>>],
     [path |-> Path("gone.dd"), exists |-> FALSE, stat |-> FALSE, content |-> << >>],
     [path |-> Path("locked.dd"), exists |-> TRUE, stat |-> FALSE, content |-> <<100>>]}

\* a candidate that names the first evidence of the case, built as the
\* dataclass declares it
Candidates(case, uuid) ==
    {ContainerCandidate([candidate_id |-> uuid, evidence_id |-> e, offset |-> 4096,
                         container_type |-> "luks", confidence |-> 90,
                         notes |-> "LUKS header signature"]).obj :
        e \in IF case.evidence = << >> THEN {"evidence-0"}
              ELSE {case.evidence[1].evidence_id}}

\* the artefact context/collector.py hands to add_artefact
CollectedArtefact(uuid, now) ==
    [artefact_id |-> uuid, description |-> "Simulated /etc/crypttab entry",
     source |-> "case", artefact_type |-> <<"ArtefactType", "os_context">>,
     path |-> NonePath, timestamp |-> now]

\* an UnlockAttempt as unlock/common.py builds it
FailedAttempt ==
    [container_id |-> "uuid4", method |-> "password", secret_id |-> "secret-1",
     result |-> <<"UnlockResult", "failure">>, message |-> "Header verification failed"]

\* no pending write: the client has case.json not open
NoWrite == [open |-> FALSE, op |-> "none", text |-> NoSnapshot, value |-> NoValue]

\* the client has called nothing yet
NotRun == [op |-> "none", exc |-> "none", value |-> NoValue]

\* no unlock or crack capability has been called
NoUnlock == [routine |-> "none", result |-> "none", exc |-> "none"]

\* nothing has been opened, nothing cancelled, nothing unlocked
OthersIdle ==
    /\ io = << >>
    /\ cancel = FALSE
    /\ ul = NoUnlock

\* no client has touched the case
LedgerIdle ==
    /\ mem = [c \in Clients |-> NoCase]
    /\ store = "ok"
    /\ wr = [c \in Clients |-> NoWrite]
    /\ lret = [c \in Clients |-> NotRun]
    /\ uuids = 0
    /\ calls = 0

----------------------------------------------------------------------------
(* The specifications. *)

NotCalled == [exc |-> "not called", discovered |-> << >>]

NoFile == [path |-> << >>, suffix |-> "", content |-> << >>, readable |-> FALSE]

\* no direct call of scan_file_for_containers is under way
NoDirectCall == file = NoFile /\ ret = NotCalled

\* scan_path_for_containers has been entered and has done nothing yet
ScanEntered ==
    /\ pc = "start"
    /\ exc = "none"
    /\ stack = << >>
    /\ pending = << >>
    /\ visited = {}
    /\ walked = << >>
    /\ yielded = << >>
    /\ opened = << >>
    /\ events = << >>
    /\ results = << >>

\* case.json of a case that has just been created
EmptySnapshot ==
    create_case(Path("case"), None, uuid4(0), datetime(0), NoSnapshot, "ok").file

\* a path scan of three files of every kind, under every sink, or the
\* scan-disk command on an image of every kind
Init ==
    /\ NoDirectCall
    /\ block_size \in {10, DEFAULT_BLOCK_SIZE}
    /\ root \in Roots
    /\ tree \in {PlainTree, CyclicTree}
    /\ files \in [FileNodes -> FileKinds]
    /\ sink \in Sinks
    /\ command \in {"scan_path_for_containers", "scan_disk"}
    /\ command = "scan_disk" => (root.exists /\ ~root.is_dir /\ tree = PlainTree /\ sink = AllInstalled)
    /\ snapshot = EmptySnapshot
    /\ LedgerIdle
    /\ OthersIdle
    /\ ScanEntered

Next == ScanStart \/ WalkDir \/ ScanNextFile \/ ScanReturn \/ CliScanDisk

Spec == Init /\ [][Next]_vars

\* a walk of every tree, the files fixed
InitWalk ==
    /\ NoDirectCall
    /\ block_size = DEFAULT_BLOCK_SIZE
    /\ root = [exists |-> TRUE, is_dir |-> TRUE, node |-> "D0"]
    /\ tree \in AllTrees
    /\ files = [n \in FileNodes |-> [suffix |-> ".bin", content |-> Fill(14), readable |-> TRUE]]
    /\ sink = AllInstalled
    /\ command = "scan_path_for_containers"
    /\ snapshot = EmptySnapshot
    /\ LedgerIdle
    /\ OthersIdle
    /\ ScanEntered

NextWalk == ScanStart \/ WalkDir \/ ScanNextFile \/ ScanReturn

SpecWalk == InitWalk /\ [][NextWalk]_vars

\* a direct call of scan_file_for_containers on every file, with every chunk size
InitFile ==
    /\ \E c \in SmallContents \cup LargeContents(MaxFileLen), sfx \in Suffixes, r \in BOOLEAN :
          /\ r \/ c = << >>
          /\ file = [path |-> <<"image">>, suffix |-> sfx, content |-> c, readable |-> r]
    /\ block_size \in BlockSizes
    /\ Len(file.content) <= MaxChunks * block_size
    /\ ret = NotCalled
    /\ root = [exists |-> FALSE, is_dir |-> FALSE, node |-> "F0"]
    /\ tree = PlainTree
    /\ files = [n \in FileNodes |-> [suffix |-> "", content |-> << >>, readable |-> FALSE]]
    /\ sink = AllInstalled
    /\ command = "scan_file_for_containers"
    /\ snapshot = EmptySnapshot
    /\ LedgerIdle
    /\ OthersIdle
    /\ pc = "idle"
    /\ exc = "none"
    /\ stack = << >>
    /\ pending = << >>
    /\ visited = {}
    /\ walked = << >>
    /\ yielded = << >>
    /\ opened = << >>
    /\ events = << >>
    /\ results = << >>

CallScanFile ==
    /\ ret = NotCalled
    /\ file # NoFile
    /\ ret' = scan_file_for_containers(file, block_size)
    /\ io' = io \o HandleOps(file, ret')
    /\ UNCHANGED <<file, block_size, fsVars, scanVars, ledgerVars, cancel>>

NextFile == CallScanFile

SpecFile == InitFile /\ [][NextFile]_vars

----------------------------------------------------------------------------
(* Claims about scan_file_for_containers, checked under SpecFile. *)

Called == ret # NotCalled

\* the candidates of a returned list that carry a given kind and offset
Reported(list, kind, offset) ==
    {i \in 1..Len(list) : list[i].container_type = kind /\ list[i].offset = offset}

MaxSignatureLen == Max({Len(BITLOCKER_HEADER), Len(LUKS_MAGIC)})

\* the length of the magic of a container kind
MagicLen(kind) == IF kind = "bitlocker" THEN Len(BITLOCKER_HEADER) ELSE Len(LUKS_MAGIC)

\* C1: a file without a headerless-container extension that holds exactly one
\* magic sequence, at offset o, scans to exactly one candidate: of that kind,
\* at offset o, with confidence 0.9.
C1_SingleMagicOneCandidate ==
    (Called /\ file.readable
       /\ Lower(file.suffix) \notin VERACRYPT_EXTENSIONS
       /\ Cardinality(Occurrences(file.content)) = 1)
    => \E occ \in Occurrences(file.content) :
          /\ ret.exc = "none"
          /\ Len(ret.discovered) = 1
          /\ ret.discovered[1].container_type = occ[1]
          /\ ret.discovered[1].offset = occ[2]
          /\ ret.discovered[1].confidence = 90

\* C2: no signature is missed: every occurrence of a magic sequence in the
\* file has a candidate of its kind at its offset in the returned list, for
\* every content and every chunk size.
C2_NoSignatureMissed ==
    (Called /\ file.readable)
    => \A occ \in Occurrences(file.content) :
          /\ ret.exc = "none"
          /\ Reported(ret.discovered, occ[1], occ[2]) # {}

\* the occurrence occ lies across a chunk boundary of the sweep
Straddles(occ, bs) == occ[2] \div bs # (occ[2] + MagicLen(occ[1]) - 1) \div bs

\* C3: with a chunk size of at least the longest magic, a single magic
\* sequence that straddles a chunk boundary is detected exactly once, at its
\* true offset.
C3_BoundaryCoverage ==
    (Called /\ file.readable
       /\ block_size >= MaxSignatureLen
       /\ Cardinality(Occurrences(file.content)) = 1)
    => \A occ \in Occurrences(file.content) :
          Straddles(occ, block_size)
          => /\ ret.exc = "none"
             /\ Cardinality(Reported(ret.discovered, occ[1], occ[2])) = 1
             /\ \A i \in 1..Len(ret.discovered) :
                   ret.discovered[i].container_type = occ[1]
                   => ret.discovered[i].offset = occ[2]

\* the first occurrence of its kind in the file, inside the offset-0 window:
\* the probe at offset 0 finds it and, with chunks no shorter than the magic,
\* the sweep finds it again
FoundTwice(occ, content, bs) ==
    /\ occ \in Occurrences(content)
    /\ \A other \in Occurrences(content) : other[1] = occ[1] => occ[2] <= other[2]
    /\ occ[2] + MagicLen(occ[1]) <= HEADER_WINDOW
    /\ bs >= MaxSignatureLen

\* C4: the returned list never holds two candidates with the same (kind,
\* offset) pair, and a signature found by a probe and again by the sweep is
\* reported once.
C4_DedupInvariant ==
    Called
    => /\ \A i, j \in 1..Len(ret.discovered) :
             (ret.discovered[i].container_type = ret.discovered[j].container_type
                /\ ret.discovered[i].offset = ret.discovered[j].offset) => i = j
       /\ \A occ \in Occurrences(file.content) :
             (file.readable /\ FoundTwice(occ, file.content, block_size))
             => Cardinality(Reported(ret.discovered, occ[1], occ[2])) = 1

----------------------------------------------------------------------------
(* Claims about scan_path_for_containers, checked under Spec. *)

Range(seq) == {seq[i] : i \in 1..Len(seq)}

\* the entries of a directory node of a kind
EntriesOf(d, kind) == {e \in Range(tree[d].entries) : e.kind = kind}

RECURSIVE RealFilesBelow(_, _)
\* the regular files in the directory node d at path and in its real
\* subdirectories: [path, node]
RealFilesBelow(path, d) ==
    {[path |-> Append(path, e.name), node |-> e.node] : e \in EntriesOf(d, "file")}
    \cup UNION {RealFilesBelow(Append(path, e.name), e.node) : e \in EntriesOf(d, "dir")}

RECURSIVE RealDirsBelow(_)
\* the directory node d and its real subdirectories
RealDirsBelow(d) == {d} \cup UNION {RealDirsBelow(e.node) : e \in EntriesOf(d, "dir")}

\* the real files under the root: the root itself when it is a file
RealFiles ==
    IF root.is_dir THEN RealFilesBelow(<<"root">>, root.node)
    ELSE {[path |-> <<"root">>, node |-> root.node]}

\* the events of a type, in order
EventsOf(type) == SelectSeq(events, LAMBDA e : e.type = type)

Scanning == command = "scan_path_for_containers"

\* C5: a per-file failure never aborts the scan: with several files of which
\* exactly one is unreadable the scan completes, the error sink receives
\* exactly one entry, for that path, every other path is scanned, and the
\* result holds the candidates of the readable files that hold signatures.
C5_PerFileFailureIsolated ==
    (Scanning /\ pc = "returned" /\ root.is_dir /\ sink.on_error
       /\ Cardinality({r \in RealFiles : ~files[r.node].readable}) = 1)
    => /\ Len(EventsOf("error")) = 1
       /\ \E r \in RealFiles : ~files[r.node].readable /\ EventsOf("error")[1].path = r.path
       /\ \A r \in RealFiles : r.path \in Range(opened)
       /\ \A r \in RealFiles :
             files[r.node].readable
             => \A occ \in Occurrences(files[r.node].content) :
                   Reported(results, occ[1], occ[2]) # {}

\* C6: a root that does not exist raises the precondition error before any
\* progress, result or error event and before any file is opened.
C6_MissingRootRaisesFirst ==
    (Scanning /\ ~root.exists /\ pc # "start")
    => /\ pc = "raised"
       /\ exc = "FileNotFoundError"
       /\ events = << >>
       /\ opened = << >>
       /\ yielded = << >>
       /\ results = << >>

C6_Witness == Scanning /\ ~root.exists /\ pc = "raised" /\ exc = "FileNotFoundError"

\* C7: for every path the progress event comes before any result or error
\* event of that path, and the events of different paths are not interleaved:
\* the events of a path are consecutive and its progress event is the first.
C7_ProgressFirstNoInterleaving ==
    /\ \A i, k \in 1..Len(events) :
          (i < k /\ events[i].path = events[k].path)
          => \A j \in i..k : events[j].path = events[i].path
    /\ \A k \in 1..Len(events) :
          events[k].type = "progress"
          => \A j \in 1..(k - 1) : events[j].path # events[k].path
    /\ sink.on_progress
       => \A k \in 1..Len(events) :
             events[k].type # "progress"
             => \E j \in 1..(k - 1) :
                   events[j].type = "progress" /\ events[j].path = events[k].path

\* an error event right after the progress event of its path, followed by
\* the progress event of another path
C7_Witness ==
    \E k \in 2..(Len(events) - 1) :
        /\ events[k].type = "error"
        /\ events[k - 1].type = "progress"
        /\ events[k - 1].path = events[k].path
        /\ events[k + 1].type = "progress"
        /\ events[k + 1].path # events[k].path

\* the candidates the result sink has received, in order
Delivered ==
    [i \in 1..Len(EventsOf("result")) |-> EventsOf("result")[i].candidate]

\* C8: the scan returns only after every path the walker produces has been
\* visited, and the returned list is the sequence of candidates delivered to
\* the result sink, in the same order.
C8_ReturnsAfterAllPaths ==
    (Scanning /\ pc = "returned")
    => /\ pending = << >>
       /\ stack = << >>
       /\ Range(yielded) = {r.path : r \in RealFiles}
       /\ opened = yielded
       /\ sink.on_result => results = Delivered

C8_Witness ==
    Scanning /\ pc = "returned" /\ root.is_dir /\ Len(yielded) = 3 /\ sink.on_result

\* C9: every candidate a scan emits to the presentation sink is pushed to the
\* case ledger: a scan against a case finishes, and then each emitted
\* candidate is in the containers of the persisted snapshot together with a
\* detection artefact of its evidence.
C9_EmittedCandidatesInLedger ==
    (command = "scan_disk" /\ pc # "start")
    => /\ exc = "none"
       /\ \A k \in 1..Len(events) :
             events[k].type = "result"
             => /\ ContainerCandidate_to_dict(events[k].candidate)
                      \in Range(snapshot.data.containers.items)
                /\ \E a \in Range(snapshot.data.artefacts.items) :
                      a.artefact_type = "detection"
                      /\ a.source = events[k].candidate.evidence_id

----------------------------------------------------------------------------
(* Claims about _iter_files, checked under SpecWalk. *)

RECURSIVE Descendants(_)
\* the directory nodes below d
Descendants(d) ==
    UNION {{e.node} \cup Descendants(e.node) : e \in EntriesOf(d, "dir")}

\* an ordinary tree (real files and directories, all of them readable) that
\* also holds a symbolic link back to an ancestor directory
TreeWithBackLink ==
    /\ root.is_dir
    /\ \A d \in DirNodes :
          /\ tree[d].listable
          /\ \A e \in Range(tree[d].entries) :
                e.kind \in {"file", "dir", "symlink"} /\ ~e.statfails
    /\ \E a, d \in DirNodes :
          d \in Descendants(a) /\ \E e \in EntriesOf(d, "symlink") : e.node = a

\* C10: on a tree with a symbolic link back to an ancestor directory the
\* traversal terminates (it lists no more directories and yields no more
\* files than the tree really has, and it never stops short of its end) and
\* it yields every real file under the root exactly once.
C10_CycleTermination ==
    TreeWithBackLink
    => /\ Len(walked) <= Cardinality(RealDirsBelow(root.node))
       /\ Len(yielded) <= Cardinality(RealFiles)
       /\ pc = "returned" \/ ENABLED NextWalk
       /\ pc = "returned"
          => /\ Range(yielded) = {r.path : r \in RealFiles}
             /\ Len(yielded) = Cardinality(RealFiles)

C10_Witness == TreeWithBackLink /\ pc = "returned" /\ Len(yielded) = 3

RECURSIVE DirOf(_, _)
\* the directory node the first k names of a walked path lead to
DirOf(path, k) ==
    IF k = 1 THEN root.node
    ELSE (CHOOSE e \in Range(tree[DirOf(path, k - 1)].entries) : e.name = path[k]).node

\* the directory entry a path below the root names
EntryAt(path) ==
    CHOOSE e \in Range(tree[DirOf(path, Len(path) - 1)].entries) : e.name = path[Len(path)]

\* the paths of the subdirectories the walker has descended into or is about
\* to descend into (the root is no subdirectory)
Descended ==
    {walked[i] : i \in 2..Len(walked)}
    \cup {stack[i].path : i \in {j \in 1..Len(stack) : Len(stack[j].path) > 1}}

\* C11: the walker never descends into a subdirectory that is a symbolic
\* link or a reparse point, or whose (device, inode) pair was already in the
\* visited set; the pair of every subdirectory it descends into is in the
\* visited set before the descent; an entry whose stat fails is skipped and
\* nothing is raised.
C11_NoUnsafeDescent ==
    /\ \A p \in Descended :
          /\ ~is_symlink(EntryAt(p))
          /\ EntryAt(p).kind # "junction"
          /\ ~EntryAt(p).statfails
          /\ StatKey(EntryAt(p)) \in visited
    /\ \A p, q \in Descended : StatKey(EntryAt(p)) = StatKey(EntryAt(q)) => p = q
    /\ Cardinality(visited) = Cardinality(Descended)
    /\ exc = "none"
    /\ pc \in {"start", "walking", "returned"}
    /\ \A i \in 1..Len(stack) : Len(stack[i].path) <= MaxDepth

\* a finished walk that met a link or reparse point, a second mount of a
\* directory already seen, and went down into a second mount of the root
C11_Witness ==
    /\ pc = "returned"
    /\ \E p \in Descended : EntryAt(p).kind = "mount"
    /\ \E d \in DirNodes : \E e \in Range(tree[d].entries) :
          e.kind \in {"symlink", "junction"} /\ ~e.statfails
    /\ \E d \in DirNodes : \E e \in Range(tree[d].entries) : e.statfails

----------------------------------------------------------------------------
(* More claims about scan_file_for_containers, checked under SpecFile. *)

\* the VeraCrypt/TrueCrypt candidates of a returned list
VeraCryptCandidates(discovered) ==
    {i \in 1..Len(discovered) : discovered[i].container_type \in {"veracrypt", "truecrypt"}}

\* the score the claim gives a first window, in hundredths
StepConfidence(window) ==
    IF window = << >> THEN 35
    ELSE IF Len(window) < 1024 THEN 40
    ELSE IF 10 * estimate_entropy(Slice(window, 0, 4096)) < 68 * EntropyOne THEN 40
    ELSE IF 10 * estimate_entropy(Slice(window, 0, 4096)) < 72 * EntropyOne THEN 50
    ELSE 65

\* C12: a scan of a file with a headerless-container extension and no magic
\* of VeraCrypt/TrueCrypt returns exactly one VeraCrypt candidate, at offset
\* 0, whose confidence is the step function of the first window; a file
\* without such an extension gets no heuristic candidate.
C12_HeuristicFallback ==
    (Called /\ file.readable)
    => IF Lower(file.suffix) \in VERACRYPT_EXTENSIONS
       THEN /\ ret.exc = "none"
            /\ Cardinality(VeraCryptCandidates(ret.discovered)) = 1
            /\ \A i \in VeraCryptCandidates(ret.discovered) :
                  /\ ret.discovered[i].container_type = "veracrypt"
                  /\ ret.discovered[i].offset = 0
                  /\ ret.discovered[i].confidence
                        = StepConfidence(ReadAt(file.content, 0, HEADER_WINDOW))
       ELSE VeraCryptCandidates(ret.discovered) = {}

----------------------------------------------------------------------------
(* A client of core/pipeline.py: each call is one step. *)

scanIdle ==
    <<file, block_size, ret, root, tree, files, sink, command, pc, exc, stack, pending,
      visited, walked, yielded, opened, events, results, io, cancel, ul>>

\* what a call of client c leaves behind: a call that raises before it
\* returns a Case leaves the client with the object it had
LedgerCall(c, op, out, drawn) ==
    /\ calls < MaxCalls
    /\ mem' = [mem EXCEPT ![c] = IF out.case = NoCase THEN @ ELSE out.case]
    /\ snapshot' = out.file
    /\ lret' = [lret EXCEPT ![c] = [op |-> op, exc |-> out.exc, value |-> out.value]]
    /\ uuids' = uuids + drawn
    /\ calls' = calls + 1
    /\ UNCHANGED <<store, wr, scanIdle>>

CreateCase(c) ==
    /\ mem[c] = NoCase
    /\ \E examiner \in Examiners :
          LedgerCall(c, "create_case",
                     create_case(Path("case"), examiner, uuid4(uuids), Now, snapshot, store), 1)

LoadCase(c) ==
    LedgerCall(c, "load_case", load_case(snapshot), 0)

AddEvidence(c) ==
    /\ mem[c] # NoCase
    /\ \E ev \in EvidenceFiles :
          LedgerCall(c, "add_evidence",
                     add_evidence(mem[c], ev, "Disk image", <<"EvidenceType", "disk_image">>,
                                  uuid4(uuids), Now, snapshot, store), 1)

RegisterContainer(c) ==
    /\ mem[c] # NoCase
    /\ \E candidate \in Candidates(mem[c], uuid4(uuids)) :
          LedgerCall(c, "register_container",
                     register_container(mem[c], candidate, uuid4(uuids + 1), snapshot, store), 2)

AddTimelineEvent(c) ==
    /\ mem[c] # NoCase
    /\ \E now \in Readings :
          LedgerCall(c, "add_timeline_event",
                     add_timeline_event(mem[c], "Collected Linux crypttab placeholder", None,
                                        now, snapshot, store), 0)

AddArtefact(c) ==
    /\ mem[c] # NoCase
    /\ LedgerCall(c, "add_artefact",
                  add_artefact(mem[c], CollectedArtefact(uuid4(uuids), Now), snapshot, store), 1)

AddUnlockAttempt(c) ==
    /\ mem[c] # NoCase
    /\ LedgerCall(c, "add_unlock_attempt",
                  add_unlock_attempt(mem[c], FailedAttempt, snapshot, store), 0)

\* the store stops taking writes, and later takes them again
StoreChanges ==
    /\ \/ store = "ok" /\ store' \in {"readonly", "full"}
       \/ store \in {"readonly", "full"} /\ store' = "repaired"
    /\ UNCHANGED <<snapshot, mem, wr, lret, uuids, calls, scanIdle>>

----------------------------------------------------------------------------
(* The snapshots a client may find in the case directory. *)

\* d without the key k
Without(d, k) == [j \in DOMAIN d \ {k} |-> d[j]]

\* a case as two evidence registrations, a container, an artefact and two
\* timeline entries leave it
StoredCase ==
    LET c0 == create_case(Path("case"), "alice", uuid4(100), datetime(0), NoSnapshot, "ok").case
        c1 == add_evidence_append(c0, CHOOSE ev \in EvidenceFiles : ev.exists /\ ev.stat, "Disk image",
                                  <<"EvidenceType", "disk_image">>, uuid4(101), datetime(0)).case
        c2 == register_container_append(c1, CHOOSE x \in Candidates(c1, uuid4(102)) : TRUE,
                                        uuid4(103)).case
        c3 == add_timeline_event_append(c2, "first", None, datetime(0)).case
        c4 == add_timeline_event_append(c3, "second", None, datetime(1)).case
    IN  add_unlock_attempt_append(c4, FailedAttempt).case

StoredDict == Case_to_dict(StoredCase)

\* the dict of StoredCase with the first entry of a collection changed
WithEntry(key, entry) == [StoredDict EXCEPT ![key] = JArray(<<entry>> \o Tail(@.items))]

\* snapshots the program has written
ValidSnapshots == {EmptySnapshot, json_dumps(StoredDict)}

\* a snapshot whose timeline is not in order of time, as an editor may leave it
UnsortedSnapshot ==
    json_dumps([StoredDict EXCEPT !.timeline =
                   JArray(<<@.items[2], @.items[1]>>)])

\* snapshots that are not the persisted form of a case: text that does not
\* parse, a document that is no object, a required field or a collection
\* missing, a collection that is null, an entry that lacks a field or holds
\* a value its class does not know
InvalidSnapshots ==
    {Truncated,
     [json_dumps(StoredDict) EXCEPT !.data = JNullValue]}
    \cup {[json_dumps(StoredDict) EXCEPT !.data = Without(StoredDict, k)] :
             k \in {"root_path", "metadata", "evidence", "containers", "artefacts",
                    "timeline", "unlock_attempts", "custody_log"}}
    \cup {[json_dumps(StoredDict) EXCEPT !.data = [StoredDict EXCEPT ![k] = JNullValue]] :
             k \in {"metadata", "evidence", "timeline"}}
    \cup {[json_dumps(StoredDict) EXCEPT !.data = d] :
             d \in {[StoredDict EXCEPT !.metadata = Without(@, "case_id")],
                    [StoredDict EXCEPT !.metadata = Without(@, "created_at")],
                    WithEntry("evidence", Without(StoredDict.evidence.items[1], "sha256")),
                    WithEntry("evidence", [StoredDict.evidence.items[1]
                                             EXCEPT !.evidence_type = "floppy"]),
                    WithEntry("custody_log", [StoredDict.custody_log.items[1]
                                                EXCEPT !.timestamp = <<"text", 0>>]),
                    WithEntry("timeline", Without(StoredDict.timeline.items[1], "timestamp"))}}

----------------------------------------------------------------------------
(* One client working on a case directory. *)

scanUnused ==
    /\ NoDirectCall
    /\ block_size = DEFAULT_BLOCK_SIZE
    /\ root = [exists |-> FALSE, is_dir |-> FALSE, node |-> "F0"]
    /\ tree = PlainTree
    /\ files = [n \in FileNodes |-> [suffix |-> "", content |-> << >>, readable |-> FALSE]]
    /\ sink = AllInstalled
    /\ command = "ledger"
    /\ ScanEntered

InitLedger ==
    /\ scanUnused
    /\ snapshot \in {NoSnapshot, UnsortedSnapshot} \cup ValidSnapshots \cup InvalidSnapshots
    /\ LedgerIdle
    /\ OthersIdle

NextLedger ==
    \/ CreateCase("A")
    \/ LoadCase("A")
    \/ AddEvidence("A")
    \/ RegisterContainer("A")
    \/ AddTimelineEvent("A")
    \/ AddArtefact("A")
    \/ AddUnlockAttempt("A")
    \/ StoreChanges

SpecLedger == InitLedger /\ [][NextLedger]_vars

----------------------------------------------------------------------------
(* Claims about the case ledger, checked under SpecLedger. *)

Last(seq) == seq[Len(seq)]

IsPrefix(s, t) == Len(s) <= Len(t) /\ SubSeq(t, 1, Len(s)) = s

\* the step is a call of op by client c
CallOf(c, op) == calls' = calls + 1 /\ lret'[c].op = op

\* the step is a call of op by client c that returns
Returns(c, op) == CallOf(c, op) /\ lret'[c].exc = "none"

\* C13: a successful add_evidence appends exactly one Evidence, which holds
\* the hash and the size of the file's content, and exactly one
\* CustodyEvent, whose action names the new evidence and whose actor is the
\* examiner of the case, "unknown" when there is none; it persists the case
\* and returns the Evidence it appended.
C13_AddEvidenceAppendsOne ==
    [][Returns("A", "add_evidence")
       => LET old == mem["A"]
              new == mem'["A"]
              evidence == lret'["A"].value
          IN  /\ new.evidence = Append(old.evidence, evidence)
              /\ \E ev \in EvidenceFiles :
                    /\ ev.exists
                    /\ ev.path = evidence.path
                    /\ evidence.sha256 = compute_sha256(ev).obj
                    /\ evidence.size = Len(ev.content)
              /\ Len(new.custody_log) = Len(old.custody_log) + 1
              /\ IsPrefix(old.custody_log, new.custody_log)
              /\ Last(new.custody_log).action = "Added evidence " \o evidence.evidence_id
              /\ Last(new.custody_log).actor
                    = IF old.metadata.examiner \in {None, ""} THEN "unknown"
                      ELSE old.metadata.examiner
              /\ \A i \in 1..Len(old.evidence) :
                    old.evidence[i].evidence_id # evidence.evidence_id
              /\ snapshot' = json_dumps(Case_to_dict(new))
              /\ load_case(snapshot').case = new]_vars

\* a case without an examiner after its second evidence has been added
C13_Witness ==
    /\ lret["A"].op = "add_evidence"
    /\ lret["A"].exc = "none"
    /\ mem["A"].metadata.examiner = None
    /\ Len(mem["A"].evidence) = 2
    /\ Last(mem["A"].custody_log).actor = "unknown"
    /\ Last(mem["A"].evidence).size = 3

\* the detection artefacts of a case
DetectionArtefacts(case) ==
    {i \in 1..Len(case.artefacts) : case.artefacts[i].artefact_type = <<"ArtefactType", "detection">>}

\* the case was created in this run, not read from a stored snapshot
CreatedHere(case) == \E n \in 0..(uuids - 1) : case.metadata.case_id = uuid4(n)

\* C14: a register_container call appends the candidate to containers and
\* exactly one artefact, a detection artefact whose source is the evidence
\* the candidate belongs to, and leaves evidence, timeline and custody log
\* as they were; so a new case with two evidence items and one container
\* holds one detection artefact, at least two custody entries and no
\* timeline entry, in memory and in the snapshot.
C14_RegisterContainerFrame ==
    /\ [][CallOf("A", "register_container")
          => LET old == mem["A"]
                 new == mem'["A"]
             IN  /\ Len(new.containers) = Len(old.containers) + 1
                 /\ IsPrefix(old.containers, new.containers)
                 /\ Len(new.artefacts) = Len(old.artefacts) + 1
                 /\ IsPrefix(old.artefacts, new.artefacts)
                 /\ Last(new.artefacts).artefact_type = <<"ArtefactType", "detection">>
                 /\ Last(new.artefacts).source = Last(new.containers).evidence_id
                 /\ new.evidence = old.evidence
                 /\ new.timeline = old.timeline
                 /\ new.custody_log = old.custody_log
                 /\ lret'["A"].exc = "none" => snapshot' = json_dumps(Case_to_dict(new))]_vars
    /\ [](\A c \in Clients :
             (mem[c] # NoCase /\ CreatedHere(mem[c]))
             => /\ Cardinality(DetectionArtefacts(mem[c])) = Len(mem[c].containers)
                /\ Len(mem[c].custody_log) >= Len(mem[c].evidence)
                /\ (Len(mem[c].evidence) = 2 /\ Len(mem[c].containers) = 1 /\ calls = 4)
                   => mem[c].timeline = << >>)

\* two evidence items and then one container for the first, in a new case
C14_Witness ==
    /\ lret["A"].op = "register_container"
    /\ lret["A"].exc = "none"
    /\ CreatedHere(mem["A"])
    /\ snapshot = json_dumps(Case_to_dict(mem["A"]))
    /\ Len(snapshot.data.evidence.items) = 2
    /\ Len(snapshot.data.containers.items) = 1
    /\ snapshot.data.containers.items[1].evidence_id = snapshot.data.evidence.items[1].evidence_id
    /\ Cardinality({i \in 1..Len(snapshot.data.artefacts.items) :
                       snapshot.data.artefacts.items[i].artefact_type = "detection"}) = 1
    /\ Len(snapshot.data.custody_log.items) >= 2
    /\ snapshot.data.timeline.items = << >>

\* the operations of the ledger that change a case
Mutators ==
    {"create_case", "add_evidence", "register_container", "add_timeline_event",
     "add_artefact", "add_unlock_attempt"}

\* C15: when a mutating operation has returned, case.json holds the whole
\* case as it is in memory, so that loading it gives the same case; after
\* create_case that is the empty case.
C15_Durability ==
    \A c \in Clients :
        (lret[c].op \in Mutators /\ lret[c].exc = "none")
        => /\ snapshot = json_dumps(Case_to_dict(mem[c]))
           /\ load_case(snapshot).exc = "none"
           /\ load_case(snapshot).case = mem[c]
           /\ lret[c].op = "create_case"
              => mem[c] = Case(mem[c].root_path, mem[c].metadata)

\* an operation that returns after the store had refused writes for a while
C15_Witness ==
    /\ lret["A"].op = "add_artefact"
    /\ lret["A"].exc = "none"
    /\ store = "repaired"
    /\ Len(mem["A"].artefacts) >= 2
    /\ snapshot.intact

\* how often e occurs in seq
Count(seq, e) == Cardinality({i \in 1..Len(seq) : seq[i] = e})

\* new is old with entries appended: the metadata are the same, the earlier
\* content of evidence, containers, artefacts, unlock attempts and custody
\* log is a prefix of the later, and no timeline entry is lost or changed
AppendOnly(old, new) ==
    /\ new.root_path = old.root_path
    /\ new.metadata = old.metadata
    /\ IsPrefix(old.evidence, new.evidence)
    /\ IsPrefix(old.containers, new.containers)
    /\ IsPrefix(old.artefacts, new.artefacts)
    /\ IsPrefix(old.unlock_attempts, new.unlock_attempts)
    /\ IsPrefix(old.custody_log, new.custody_log)
    /\ Len(new.timeline) >= Len(old.timeline)
    /\ \A i \in 1..Len(old.timeline) :
          Count(new.timeline, old.timeline[i]) >= Count(old.timeline, old.timeline[i])

\* C16: a case evolves only by appends: no ledger operation on a case
\* changes its metadata or removes, alters or reorders an entry of
\* evidence, containers, artefacts or custody log, or removes or alters a
\* timeline entry, whether the operation returns or raises; and what an
\* operation has written to case.json keeps the case it was given.
C16_AppendOnly ==
    [][\A c \in Clients :
          (mem[c] # NoCase /\ lret'[c].op # "load_case")
          => /\ AppendOnly(mem[c], mem'[c])
             /\ (CallOf(c, lret'[c].op) /\ lret'[c].exc = "none")
                => AppendOnly(mem[c], load_case(snapshot').case)]_vars

\* a fourth call on a case that already holds entries of every kind
C16_Witness ==
    /\ calls = 4
    /\ lret["A"].op = "add_evidence"
    /\ lret["A"].exc = "none"
    /\ Len(mem["A"].evidence) >= 2
    /\ Len(mem["A"].timeline) >= 2
    /\ mem["A"].containers # << >>
    /\ mem["A"].unlock_attempts # << >>


\* the entries of a timeline are in ascending order of timestamp
SortedByTimestamp(timeline) ==
    \A i, j \in 1..Len(timeline) :
        i < j => timeline[i].timestamp[2] <= timeline[j].timestamp[2]

\* C17: after an add_timeline_event call on a case, created here or loaded
\* from a snapshot, the timeline is in ascending order of timestamp,
\* whatever the clock read and whatever order the loaded timeline had; when
\* the call has returned, the timeline in case.json is in that order too.
C17_TimelineSorted ==
    \A c \in Clients :
        lret[c].op = "add_timeline_event"
        => /\ SortedByTimestamp(mem[c].timeline)
           /\ lret[c].exc = "none"
              => /\ load_case(snapshot).exc = "none"
                 /\ SortedByTimestamp(load_case(snapshot).case.timeline)
                 /\ load_case(snapshot).case.timeline = mem[c].timeline

\* an event whose reading is earlier than the timestamp of an entry the
\* loaded case already held: it stands before that entry
C17_Witness ==
    /\ lret["A"].op = "add_timeline_event"
    /\ lret["A"].exc = "none"
    /\ ~CreatedHere(mem["A"])
    /\ Len(mem["A"].timeline) = 3
    /\ mem["A"].timeline[2].description = "Collected Linux crypttab placeholder"
    /\ mem["A"].timeline[2].timestamp = datetime(0)
    /\ mem["A"].timeline[3].description = "second"
    /\ mem["A"].timeline[3].timestamp = datetime(1)


\* C18: load_case raises whenever case.json is not the persisted form of a
\* case (text that does not parse, a required field or a collection array
\* missing or malformed); it never returns a Case read from such a file.
C18_InvalidSnapshotRejected ==
    \A c \in Clients :
        (lret[c].op = "load_case" /\ snapshot \in InvalidSnapshots)
        => /\ lret[c].exc # "none"
           /\ mem[c] = NoCase


\* the entries of a case, each with the collection it stands in
Entries(case) ==
    UNION {{<<CaseCollections[k], e>> : e \in Range(case[CaseCollections[k]])} :
              k \in 1..Len(CaseCollections)}

\* C19: when the save inside a mutation of a case fails, the operation
\* raises, and afterwards case.json still holds a case and the case in
\* memory has no entry that case.json lacks.
C19_FailedSaveKeepsInSync ==
    \A c \in Clients :
        (lret[c].op \in Mutators \ {"create_case"} /\ lret[c].exc = "OSError")
        => /\ load_case(snapshot).exc = "none"
           /\ Entries(mem[c]) \subseteq Entries(load_case(snapshot).case)


----------------------------------------------------------------------------
(* Two clients working on one case directory.  Each loads the case, then   *)
(* calls one mutation, whose save is Path.write_text: open(mode="w")        *)
(* empties case.json, the write that follows puts the text at its start.   *)
(* Another client may run between the two.                                  *)

\* the mutations a client calls: what each appends in memory
ClientAppends(case, uuid) ==
    {[op |-> "add_evidence",
      app |-> add_evidence_append(case, CHOOSE ev \in EvidenceFiles : ev.exists /\ ev.stat, "Disk image",
                                  <<"EvidenceType", "disk_image">>, uuid, Now)],
     [op |-> "add_timeline_event",
      app |-> add_timeline_event_append(case, "Collected Linux crypttab placeholder", None, Now)]}

\* load_case(root_path) by client c
ClientLoad(c) ==
    /\ ~wr[c].open
    /\ calls < MaxCalls
    /\ LET out == load_case(snapshot)
       IN  /\ mem' = [mem EXCEPT ![c] = IF out.case = NoCase THEN @ ELSE out.case]
           /\ lret' = [lret EXCEPT ![c] = [op |-> "load_case", exc |-> out.exc,
                                           value |-> out.value]]
    /\ calls' = calls + 1
    /\ UNCHANGED <<snapshot, store, wr, uuids, scanIdle>>

\* a mutation on the case just loaded, up to the open(mode="w") of save_case
ClientOpen(c) ==
    /\ ~wr[c].open
    /\ lret[c].op = "load_case"
    /\ lret[c].exc = "none"
    /\ calls < MaxCalls
    /\ \E m \in ClientAppends(mem[c], uuid4(uuids)) :
          /\ mem' = [mem EXCEPT ![c] = m.app.case]
          /\ wr' = [wr EXCEPT ![c] = [open |-> TRUE, op |-> m.op,
                                      text |-> json_dumps(Case_to_dict(m.app.case)),
                                      value |-> m.app.value]]
    /\ snapshot' = Truncated
    /\ uuids' = uuids + 1
    /\ calls' = calls + 1
    /\ UNCHANGED <<store, lret, scanIdle>>

\* the write and the close of save_case, and the return of the mutation
ClientWrite(c) ==
    /\ wr[c].open
    /\ snapshot' = Overwrite(snapshot, wr[c].text)
    /\ lret' = [lret EXCEPT ![c] = [op |-> wr[c].op, exc |-> "none", value |-> wr[c].value]]
    /\ wr' = [wr EXCEPT ![c] = NoWrite]
    /\ UNCHANGED <<mem, store, uuids, calls, scanIdle>>

InitClients ==
    /\ scanUnused
    /\ snapshot \in ValidSnapshots
    /\ LedgerIdle
    /\ OthersIdle

NextClients ==
    \E c \in Clients :
        \/ ClientLoad(c)
        \/ ClientOpen(c)
        \/ ClientWrite(c)

SpecClients == InitClients /\ [][NextClients]_vars

\* C20: when two clients have each loaded the case, appended through a
\* ledger operation and saved, and no save is under way, case.json is the
\* persisted form of a case, not a mixture of two writes, and holds the
\* entries both clients appended.
C20_ConcurrentClientsConsistent ==
    (\A c \in Clients : ~wr[c].open /\ lret[c].op \in Mutators /\ lret[c].exc = "none")
    => /\ snapshot.intact
       /\ load_case(snapshot).exc = "none"
       /\ \A c \in Clients : Entries(mem[c]) \subseteq Entries(load_case(snapshot).case)


----------------------------------------------------------------------------
(* More claims about scan_path_for_containers. *)

\* the directory node a walked path names
NodeAt(path) == IF Len(path) = 1 THEN root.node ELSE EntryAt(path).node

\* the paths the error sink has been called with
ErrorPaths == {events[k].path : k \in {j \in 1..Len(events) : events[j].type = "error"}}

\* C22: when the scan has returned, every file it could not read and every
\* directory it could not list has been reported through the error sink
\* with its path, and every real file outside the directories that could
\* not be listed has been scanned.
C22_UnreadableReported ==
    (Scanning /\ pc = "returned" /\ sink.on_error)
    => /\ \A i \in 1..Len(yielded) :
             (\E r \in RealFiles : r.path = yielded[i] /\ ~files[r.node].readable)
             => yielded[i] \in ErrorPaths
       /\ \A i \in 1..Len(walked) :
             ~tree[NodeAt(walked[i])].listable => walked[i] \in ErrorPaths
       /\ \A i \in 1..Len(walked) :
             tree[NodeAt(walked[i])].listable
             => \A e \in EntriesOf(NodeAt(walked[i]), "file") :
                   Append(walked[i], e.name) \in Range(opened)


----------------------------------------------------------------------------
(* A path scan whose consumer may signal cancellation while it runs.       *)
(* scan_path_for_containers takes the root, the chunk size and the three   *)
(* callbacks; it has no parameter, and its loop no test, through which a    *)
(* signal could reach it.                                                   *)

\* the consumer signals that the scan should stop
ConsumerCancels ==
    /\ pc = "walking"
    /\ ~cancel
    /\ cancel' = TRUE
    /\ UNCHANGED <<file, block_size, ret, fsVars, scanVars, ledgerVars, io>>

InitCancel ==
    /\ NoDirectCall
    /\ block_size = DEFAULT_BLOCK_SIZE
    /\ root = [exists |-> TRUE, is_dir |-> TRUE, node |-> "D0"]
    /\ tree \in {PlainTree, CyclicTree}
    /\ files \in [FileNodes -> FileKinds]
    /\ sink = AllInstalled
    /\ command = "scan_path_for_containers"
    /\ snapshot = EmptySnapshot
    /\ LedgerIdle
    /\ OthersIdle
    /\ ScanEntered

NextCancel == ScanStart \/ WalkDir \/ ScanNextFile \/ ScanReturn \/ ConsumerCancels

SpecCancel == InitCancel /\ [][NextCancel]_vars

\* C23: once the consumer has signalled cancellation, the scan starts no
\* further file and emits nothing for a further path, and it ends without
\* raising.
C23_CancelAtPathBoundary ==
    /\ [][cancel => (opened' = opened /\ yielded' = yielded /\ events' = events)]_vars
    /\ [](cancel => exc = "none" /\ pc # "raised")


----------------------------------------------------------------------------
(* unlock/common.py, unlock/bitlocker.py, unlock/luks.py,                  *)
(* unlock/veracrypt.py and crack/interface.py.                             *)

RECURSIVE XorBits(_, _, _)
\* a ^ b on the low k bits
XorBits(a, b, k) ==
    IF k = 0 THEN 0
    ELSE ((a + b) % 2) + 2 * XorBits(a \div 2, b \div 2, k - 1)

\* hashlib.sha256(secret.encode("utf-8")).digest() for the secrets of the model
sha256_digest(secret) ==
    CASE secret = "pw" ->
           <<48, 201, 82, 250, 177, 34, 195, 249, 117, 159, 2, 166, 217, 92, 55, 88,
             178, 70, 180, 254, 226, 57, 149, 123, 45, 79, 238, 70, 226, 97, 112, 196>>
      [] secret = "letmein" ->
           <<28, 139, 254, 143, 128, 29, 121, 116, 92, 70, 49, 208, 159, 255, 54, 200,
             42, 163, 127, 196, 204, 228, 252, 148, 102, 131, 215, 179, 54, 182, 48, 50>>
      [] OTHER ->
           <<227, 176, 196, 66, 152, 252, 28, 20, 154, 251, 244, 200, 153, 111, 185, 36,
             39, 174, 65, 228, 100, 155, 147, 76, 164, 149, 153, 27, 120, 82, 184, 85>>

\* derive_key(secret, length=32): one digest is long enough
derive_key(secret) == Slice(sha256_digest(secret), 0, 32)

\* bytes(a ^ b for a, b in zip(x, y)): as long as the shorter of the two
XorZip(x, y) ==
    [i \in 1..(IF Len(x) < Len(y) THEN Len(x) ELSE Len(y)) |-> XorBits(x[i], y[i], 8)]

\* verify_magic: header.startswith(expected)
verify_magic(header, expected) ==
    Len(header) >= Len(expected) /\ SubSeq(header, 1, Len(expected)) = expected

\* attempt_unlock(context, expected_magic, header_reader), with what the
\* reader gives: [exc, obj].  It returns an UnlockAttempt in every case.
attempt_unlock(context, expected_magic, read) ==
    LET attempt(result, message) ==
            [container_id |-> context.candidate_id, method |-> context.method,
             secret_id |-> context.secret_id, result |-> <<"UnlockResult", result>>,
             message |-> message]
    IN  IF read.exc # "none" THEN Return(attempt("error", read.exc))
        ELSE LET header == read.obj
                 derived == derive_key(context.secret)
                 preview == XorZip(Slice(header, 0, Len(derived)),
                                   Slice(derived, 0, Len(header)))
             IN  IF verify_magic(preview, expected_magic)
                 THEN Return(attempt("success", "Header verification succeeded"))
                 ELSE Return(attempt("failure", "Header verification failed"))

\* the names detector/signatures.py binds
SignatureNames ==
    {"BITLOCKER_HEADER", "LUKS_MAGIC", "VERACRYPT_EXTENSIONS", "DEFAULT_SCAN_OFFSETS",
     "HEADER_WINDOW"}

\* from ..detector.signatures import <name>
ImportFromSignatures(name) == IF name \in SignatureNames THEN "none" ELSE "ImportError"

\* unlock_with_password of unlock/<routine>.py; a module whose import fails
\* gives no function to call
unlock_with_password(routine, context, read) ==
    CASE routine = "bitlocker" -> attempt_unlock(context, BITLOCKER_HEADER, read)
      [] routine = "luks" -> attempt_unlock(context, LUKS_MAGIC, read)
      [] OTHER -> IF ImportFromSignatures("VERACRYPT_TC_HEADER") # "none"
                  THEN Raise(ImportFromSignatures("VERACRYPT_TC_HEADER"))
                  ELSE attempt_unlock(context, << >>, read)

\* CrackEngine(config).run()
CrackEngine_run(config) == Raise("NotImplementedError")

----------------------------------------------------------------------------
(* A caller of the unlock routines and of the crack engine. *)

Secrets == {"pw", "letmein", ""}

\* what header_reader(candidate) gives: the header that the key of a secret
\* turns into a magic, alone or followed by sector bytes; zero bytes; no
\* bytes; or an exception
HeaderReads ==
    {Return(XorZip(m, derive_key(s)) \o pad) :
        m \in Magics, s \in Secrets, pad \in {<< >>, Fill(40)}}
    \cup {Return(<< >>), Return(Fill(8)), Return(Fill(40)), Raise("OSError")}

CrackConfigs ==
    [container : {"cand-1"}, wordlist_path : {NonePath, Path("words.txt")},
     max_runtime_seconds : {0, 60}]

\* one call of an unlock routine
CallUnlock ==
    /\ ul = NoUnlock
    /\ \E routine \in {"bitlocker", "luks", "veracrypt"}, secret \in Secrets,
          read \in HeaderReads :
          LET context == [candidate_id |-> "cand-1", secret |-> secret,
                          method |-> "password", secret_id |-> "secret-1"]
              out == unlock_with_password(routine, context, read)
          IN  ul' = [routine |-> routine, secret |-> secret, read |-> read,
                     config |-> << >>, exc |-> out.exc,
                     result |-> IF out.exc = "none" THEN out.obj.result[2] ELSE "none"]
    /\ UNCHANGED <<file, block_size, ret, root, tree, files, sink, command, snapshot,
                   scanVars, ledgerVars, io, cancel>>

\* one run of the crack engine
CallCrack ==
    /\ ul = NoUnlock
    /\ \E config \in CrackConfigs :
          LET out == CrackEngine_run(config)
          IN  ul' = [routine |-> "crack", secret |-> "", read |-> Return(<< >>),
                     config |-> config, exc |-> out.exc, result |-> "none"]
    /\ UNCHANGED <<file, block_size, ret, root, tree, files, sink, command, snapshot,
                   scanVars, ledgerVars, io, cancel>>

InitUnlock ==
    /\ scanUnused
    /\ snapshot = EmptySnapshot
    /\ LedgerIdle
    /\ OthersIdle

NextUnlock == CallUnlock \/ CallCrack

SpecUnlock == InitUnlock /\ [][NextUnlock]_vars

\* C24: every call of an unlock routine or of the crack engine ends in the
\* not-implemented rejection; none returns a result, least of all success.
C24_UnlockAlwaysRejects ==
    ul # NoUnlock
    => /\ ul.exc = "NotImplementedError"
       /\ ul.result # "success"


----------------------------------------------------------------------------
(* The streaming sweep chunk by chunk, checked under SpecFile. *)

RECURSIVE SweepLocals(_, _, _)
\* offset and tail of scan_file_for_containers on entering the k-th turn of
\* the sweep loop
SweepLocals(f, bs, k) ==
    IF k = 1 THEN [offset |-> 0, tail |-> << >>]
    ELSE LET before == SweepLocals(f, bs, k - 1)
             block == ReadAt(f.content, before.offset, bs)
         IN  [offset |-> before.offset + Len(block),
              tail |-> NextTail(block, Max({Len(BITLOCKER_HEADER), Len(LUKS_MAGIC)}) - 1)]

\* the turns of the sweep loop that read a chunk
SweepTurns(f, bs) == 1..((Len(f.content) + bs - 1) \div bs)

\* C25: on entering every turn of the sweep, for every chunk size, the tail
\* is the last min(max_signature_length - 1, bytes read so far) bytes of
\* what has been read of the file, so that tail + chunk holds every window
\* of max_signature_length bytes that ends inside the chunk, and index i of
\* tail + chunk is the file offset (chunk start - len(tail) + i).
C25_TailInvariant ==
    (Called /\ file.readable)
    => \A k \in SweepTurns(file, block_size) :
          LET at == SweepLocals(file, block_size, k)
              block == ReadAt(file.content, at.offset, block_size)
              combined == at.tail \o block
              base_offset == at.offset - Len(at.tail)
          IN  /\ at.tail = LastBytes(Slice(file.content, 0, at.offset),
                                     Min({MaxSignatureLen - 1, at.offset}))
              /\ \A i \in 0..(Len(combined) - 1) :
                    combined[i + 1] = file.content[base_offset + i + 1]
              /\ \A e \in (at.offset + 1)..(at.offset + Len(block)) :
                    e >= MaxSignatureLen => e - MaxSignatureLen >= base_offset


----------------------------------------------------------------------------
(* Claims about file handles, checked under Spec. *)

\* the paths whose handle is open after the first k entries of io
OpenAfter(k) ==
    {io[i].path : i \in {j \in 1..k : io[j].op = "open"}}
    \ {io[i].path : i \in {j \in 1..k : io[j].op = "close"}}

\* C26: at most one scanned file is open at any time, every handle is
\* closed before the loop takes the next path and emits its progress event,
\* and when the scan of a file has ended, by return or by exception, no
\* scanned file is open.
C26_HandlesScoped ==
    /\ \A k \in 0..Len(io) : Cardinality(OpenAfter(k)) <= 1
    /\ \A k \in 1..Len(io) : io[k].op = "next" => OpenAfter(k - 1) = {}
    /\ \A k \in 1..Len(io) :
          io[k].op = "close" => k > 1 /\ io[k - 1] = [op |-> "open", path |-> io[k].path]
    /\ OpenAfter(Len(io)) = {}

\* a finished scan of a file that could not be opened, a file whose scan
\* raised after it was opened, and a file whose scan returned
C26_Witness ==
    /\ Scanning
    /\ pc = "returned"
    /\ Len(yielded) = 3
    /\ \E r \in RealFiles : ~files[r.node].readable
    /\ \E r \in RealFiles :
          /\ files[r.node].readable
          /\ r.path \in ErrorPaths
          /\ \E k \in 1..Len(io) : io[k] = [op |-> "close", path |-> r.path]
    /\ \E r \in RealFiles :
          /\ files[r.node].readable
          /\ r.path \notin ErrorPaths
          /\ \E k \in 1..Len(io) : io[k] = [op |-> "close", path |-> r.path]


----------------------------------------------------------------------------
(* More claims about the candidates of a scan, checked under SpecFile. *)

\* the BitLocker and LUKS candidates of a returned list
SignatureCandidates(discovered) ==
    {i \in 1..Len(discovered) : discovered[i].container_type \in {"bitlocker", "luks"}}

----------------------------------------------------------------------------
(* More claims about the events of a path scan, checked under Spec. *)

\* the events of a type the sink has received for a path
EventsFor(type, path) == {k \in 1..Len(events) : events[k].type = type /\ events[k].path = path}

\* C28: for each scanned path the sink receives at most one error event,
\* and a path with an error event has no result event; a file that cannot
\* be opened has its one error event when the error sink is installed; the
\* returned list holds nothing of a scan in which every path failed, and
\* with the result sink installed it holds exactly the candidates
\* delivered, none of them for a path that failed.
C28_ErrorOrResults ==
    /\ \A i \in 1..Len(yielded) :
          /\ Cardinality(EventsFor("error", yielded[i])) <= 1
          /\ EventsFor("error", yielded[i]) # {} => EventsFor("result", yielded[i]) = {}
          /\ (sink.on_error /\ \E r \in RealFiles : r.path = yielded[i] /\ ~files[r.node].readable)
             => Cardinality(EventsFor("error", yielded[i])) = 1
    /\ \A k \in 1..Len(events) : events[k].path \in Range(yielded)
    /\ (sink.on_error /\ Range(yielded) \subseteq ErrorPaths) => results = << >>
    /\ sink.on_result => results = Delivered

\* a finished scan with a path whose file holds a signature and whose scan
\* failed after the match, and a path whose scan returned
C28_Witness ==
    /\ Scanning
    /\ pc = "returned"
    /\ sink.on_error
    /\ sink.on_result
    /\ \E r \in RealFiles :
          /\ files[r.node].readable
          /\ Occurrences(files[r.node].content) # {}
          /\ Cardinality(EventsFor("error", r.path)) = 1
          /\ EventsFor("result", r.path) = {}
    /\ \E r \in RealFiles :
          /\ r.path \in Range(yielded)
          /\ EventsFor("error", r.path) = {}


----------------------------------------------------------------------------
(* More claims about the case ledger, checked under SpecLedger. *)

\* C29: an add_evidence call that fails while it hashes the file or reads
\* its size raises and changes nothing: the case in memory is the one
\* before the call, and case.json is not written.
C29_FailedHashChangesNothing ==
    [][(CallOf("A", "add_evidence")
          /\ lret'["A"].exc \in {"FileNotFoundError", "PermissionError"})
       => /\ mem' = mem
          /\ snapshot' = snapshot
          /\ lret'["A"].value = NoValue]_vars

\* a case with evidence on which one call failed at the size of the file,
\* while case.json still holds the case
C29_Witness ==
    /\ lret["A"].op = "add_evidence"
    /\ lret["A"].exc = "PermissionError"
    /\ mem["A"] # NoCase
    /\ Len(mem["A"].evidence) >= 1
    /\ snapshot = json_dumps(Case_to_dict(mem["A"]))


\* the case load_case returns from the file save_case writes for a case, on
\* a store that takes the write
Reloaded(case) == load_case(save_case(case, snapshot, "ok").file)

\* C30: a case a client holds after any ledger calls comes back from
\* load_case as it was saved: the same root path and metadata and the same
\* entries in the same order in each of the six collections; and a
\* load_case that follows a call which saved the case returns that case.
C30_SnapshotRoundTrip ==
    /\ [](mem["A"] # NoCase
            => Reloaded(mem["A"])
                  = Outcome("none", mem["A"], json_dumps(Case_to_dict(mem["A"])), mem["A"]))
    /\ [][(/\ CallOf("A", "load_case")
           /\ lret["A"].op \in Mutators \cup {"create_case"}
           /\ lret["A"].exc = "none")
          => /\ lret'["A"].exc = "none"
             /\ lret'["A"].value = mem["A"]
             /\ mem'["A"] = mem["A"]]_vars

\* a case with entries in all six collections, one of them an artefact with
\* a timestamp added in this run, as load_case has just returned it
C30_Witness ==
    /\ lret["A"].op = "load_case"
    /\ lret["A"].exc = "none"
    /\ calls >= 3
    /\ \A i \in 1..Len(CaseCollections) : mem["A"][CaseCollections[i]] # << >>
    /\ \E i \in 1..Len(mem["A"].artefacts) : mem["A"].artefacts[i].timestamp # NoneTime
    /\ snapshot = json_dumps(Case_to_dict(mem["A"]))

=============================================================================
